---- MODULE Spec2Model ----
(***************************************************************************)
(* A model of pdf_generator: the element tree (elements/*.py), the         *)
(* Document (core/document.py), the preamble (renderer/preamble.py), the   *)
(* document renderer (renderer/latex_renderer.py) and the fluent builders  *)
(* (builder/document_builder.py).                                          *)
(*                                                                         *)
(* Rendered LaTeX is a sequence of tokens, one per command, environment    *)
(* delimiter, line break or text field; a text is a sequence of            *)
(* one-character strings.  Python's None is the string "None" for scalar   *)
(* fields and the one-element sequence <<"None">> for text fields.         *)
(***************************************************************************)
EXTENDS Integers, Sequences, FiniteSets, TLC

VARIABLES
    document,          \* core/document.py Document: metadata and content
    preamble_manager,  \* renderer/preamble.py PreambleManager
    elems,             \* every LaTeXElement constructed so far, by identity
    builders,          \* every builder object constructed so far, by identity
    openedOn,          \* history: the builder whose call created builders[b]
    pkglog,            \* history: the add_package calls made, in order
    margin_args,       \* history: the arguments of the most recent set_margins
    output_dir,        \* the files copied into the output directory
    resources,         \* the value returned by the most recent process_images()
    font_result,       \* the value returned by the most recent process_fonts()
    compiler,          \* compiler.py LaTeXCompiler of the PDFGenerator
    steps,             \* history: what the most recent generate() did, in order
    last,              \* history: the most recent call and what it returned
    output             \* the value returned by the most recent to_latex()

vars == <<document, preamble_manager, elems, builders, openedOn, pkglog,
          margin_args, output_dir, resources, font_result, compiler, steps,
          last, output>>

(***************************************************************************)
(* Bounds of the model.                                                    *)
(***************************************************************************)
MaxElems == 3
MaxAdds == 3
MaxBuilt == 3
MaxScoped == 5
MaxDocElems == 2
MaxPkgCalls == 3
MaxCommands == 2
MaxSecElems == 2
MaxDrawElems == 3
MaxResElems == 3
MaxGenElems == 2
MaxEscLen == 4
MaxProfElems == 2
MaxRenderElems == 2
MaxAutoCalls == 3
MaxDedupCalls == 2

(***************************************************************************)
(* Python values.                                                          *)
(***************************************************************************)
None == "None"
NoneT == <<"None">>

\* truthiness of an Optional[str] held as a text
Truthy(t) == t # NoneT /\ t # <<>>

\* truthiness of an Optional[str] held as a scalar
TruthyS(s) == s # None /\ s # ""

RECURSIVE Flatten(_)
Flatten(ss) == IF ss = <<>> THEN <<>> ELSE Head(ss) \o Flatten(Tail(ss))

Range(f) == {f[i] : i \in DOMAIN f}

(***************************************************************************)
(* utils/encoding.py                                                       *)
(***************************************************************************)
\* only the opening brace escaped
escape_latex_special_chars_open_only(text) ==
    Flatten([i \in 1..Len(text) |->
        IF text[i] = "{" THEN <<"\\", "{">> ELSE <<text[i]>>])

escape_latex_special_chars(text) ==
    Flatten([i \in 1..Len(text) |->
        IF text[i] = "{" THEN <<"\\", "{">>
        ELSE IF text[i] = "}" THEN <<"\\", "}">>
        ELSE <<text[i]>>])

(***************************************************************************)
(* Tokens of the rendered markup.  k: kind, a: name, o: argument text,     *)
(* e: the element whose to_latex emitted it (0: the document renderer),    *)
(* s: the step of the renderer that emitted it.                            *)
(***************************************************************************)
Tok(k, a, o, e, s) == [k |-> k, a |-> a, o |-> o, e |-> e, s |-> s]

Begin(env, o, e) == Tok("begin", env, o, e, "elem")
End(env, e) == Tok("end", env, <<>>, e, "elem")
Cmd(c, o, e) == Tok("cmd", c, o, e, "elem")
Txt(field, t, e) == Tok("text", field, t, e, "elem")
NL(e) == Tok("nl", "", <<>>, e, "elem")
Raise(exc, e) == Tok("raise", exc, <<>>, e, "elem")

Raises(toks) == \E i \in 1..Len(toks) : toks[i].k = "raise"

(***************************************************************************)
(* elements/*.py: the constructors.  Every element starts with no parent   *)
(* and no children (base.py LaTeXElement.__init__).                        *)
(***************************************************************************)
BlankSpace(height) ==
    [type |-> "BlankSpace", parent |-> 0, children |-> <<>>, height |-> height]

Section(title, level, label, numbered) ==
    [type |-> "Section", parent |-> 0, children |-> <<>>, title |-> title,
     level |-> level, label |-> label, numbered |-> numbered]

Chapter(title, label) ==
    [type |-> "Chapter", parent |-> 0, children |-> <<>>, title |-> title,
     label |-> label]

TableOfContents ==
    [type |-> "TableOfContents", parent |-> 0, children |-> <<>>]

\* margin_content: <<>> is None, <<"str", t>> a string, <<"elem", id>> an element
DrawingSpace(width, right_margin, margin_content) ==
    [type |-> "DrawingSpace", parent |-> 0, children |-> <<>>, width |-> width,
     right_margin |-> right_margin, margin_content |-> margin_content]

Exercise(title, content, items, columns) ==
    [type |-> "Exercise", parent |-> 0, children |-> <<>>, title |-> title,
     content |-> content, items |-> items, columns |-> columns]

Text(text, bold) ==
    [type |-> "Text", parent |-> 0, children |-> <<>>, text |-> text,
     bold |-> bold]

Paragraph(text, bold) ==
    [type |-> "Paragraph", parent |-> 0, children |-> <<>>, text |-> text,
     bold |-> bold]

List(items, ordered) ==
    [type |-> "List", parent |-> 0, children |-> <<>>, items |-> items,
     ordered |-> ordered]

Line(text, line_style, line_thickness, color) ==
    [type |-> "Line", parent |-> 0, children |-> <<>>, text |-> text,
     line_style |-> line_style, line_thickness |-> line_thickness,
     color |-> color]

Divider(symbol, spacing, vspace, vspace_before, vspace_after) ==
    [type |-> "Divider", parent |-> 0, children |-> <<>>, symbol |-> symbol,
     spacing |-> spacing,
     vspace_before |-> IF vspace_before # None THEN vspace_before ELSE vspace,
     vspace_after |-> IF vspace_after # None THEN vspace_after ELSE vspace]

Equation(equation, inline, label) ==
    [type |-> "Equation", parent |-> 0, children |-> <<>>,
     equation |-> equation, inline |-> inline, label |-> label]

Align(equations, label, numbered, vspace) ==
    [type |-> "Align", parent |-> 0, children |-> <<>>,
     equations |-> equations, label |-> label, numbered |-> numbered,
     vspace |-> vspace]

Table(headers, rows, caption, label) ==
    [type |-> "Table", parent |-> 0, children |-> <<>>, headers |-> headers,
     rows |-> rows, caption |-> caption, label |-> label, position |-> "h"]

TextBox(content, title, box_type, style) ==
    [type |-> "TextBox", parent |-> 0, children |-> <<>>, content |-> content,
     title |-> title, box_type |-> box_type, style |-> style]

Note(content) ==
    [TextBox(content, <<"N">>, "tcolorbox", <<"colback", "colframe">>)
        EXCEPT !.type = "Note"]

Warning(content) ==
    [TextBox(content, <<"W">>, "tcolorbox", <<"colback", "colframe">>)
        EXCEPT !.type = "Warning"]

Info(content) ==
    [TextBox(content, <<"I">>, "tcolorbox", <<"colback", "colframe">>)
        EXCEPT !.type = "Info"]

Image(image_path, caption, label, inline) ==
    [type |-> "Image", parent |-> 0, children |-> <<>>,
     image_path |-> image_path, caption |-> caption, width |-> "0.8",
     height |-> None, label |-> label, position |-> "h", inline |-> inline,
     processed_path |-> None]

TikZ(code, caption, label, inline) ==
    [type |-> "TikZ", parent |-> 0, children |-> <<>>, code |-> code,
     caption |-> caption, label |-> label, inline |-> inline]

(***************************************************************************)
(* elements/*.py: to_latex.  es is the heap of elements, id the element    *)
(* rendered, d the depth of calls Python still allows: a to_latex that     *)
(* recurses deeper raises RecursionError, as any exception is a "raise"    *)
(* token here that aborts the enclosing render.  A token stands for one    *)
(* command together with the line end that follows it; the line breaks a   *)
(* container appends around its children are tokens of their own.          *)
(***************************************************************************)
RECURSIVE to_latex(_, _, _)
RECURSIVE children_latex(_, _, _, _, _)

\* the children rendered last to first
children_latex_reversed(es, ch, d, pre, post) ==
    IF ch = <<>> THEN <<>>
    ELSE children_latex(es, Tail(ch), d, pre, post)
             \o pre \o to_latex(es, Head(ch), d) \o post

\* for child in self.children: result += pre + child.to_latex() + post
children_latex(es, ch, d, pre, post) ==
    IF ch = <<>> THEN <<>>
    ELSE pre \o to_latex(es, Head(ch), d) \o post
             \o children_latex(es, Tail(ch), d, pre, post)

OptCmd(c, t, id) == IF Truthy(t) THEN <<Cmd(c, t, id)>> ELSE <<>>

BlankSpace_to_latex(es, id, d) == <<Cmd("\\vspace", <<es[id].height>>, id)>>

\* a level out of range taken to the nearest level
SectionCommand_clamped(level) ==
    CASE level = 1 -> "\\section"
      [] level = 2 -> "\\subsection"
      [] level = 3 -> "\\subsubsection"
      [] level = 4 -> "\\paragraph"
      [] level = 5 -> "\\subparagraph"
      [] level > 5 -> "\\subparagraph"
      [] OTHER -> "\\section"

SectionCommand(level) ==
    CASE level = 1 -> "\\section"
      [] level = 2 -> "\\subsection"
      [] level = 3 -> "\\subsubsection"
      [] level = 4 -> "\\paragraph"
      [] level = 5 -> "\\subparagraph"
      [] OTHER -> "\\section"

Starred(cmd) ==
    CASE cmd = "\\section" -> "\\section*"
      [] cmd = "\\subsection" -> "\\subsection*"
      [] cmd = "\\subsubsection" -> "\\subsubsection*"
      [] cmd = "\\paragraph" -> "\\paragraph*"
      [] cmd = "\\subparagraph" -> "\\subparagraph*"

Section_to_latex(es, id, d) ==
    LET el == es[id]
        cmd == IF el.numbered THEN SectionCommand(el.level)
               ELSE Starred(SectionCommand(el.level))
    IN  <<Cmd(cmd, el.title, id)>>
        \o OptCmd("\\label", el.label, id)
        \o <<NL(id)>>
        \o children_latex(es, el.children, d, <<>>, <<NL(id)>>)

Chapter_to_latex(es, id, d) ==
    LET el == es[id]
    IN  <<Cmd("\\chapter", el.title, id)>>
        \o OptCmd("\\label", el.label, id)
        \o <<NL(id)>>
        \o children_latex(es, el.children, d, <<>>, <<NL(id)>>)

TableOfContents_to_latex(es, id, d) ==
    <<Cmd("\\tableofcontents", <<>>, id), Cmd("\\newpage", <<>>, id)>>

\* the margin content rendered with the children, in the first column
DrawingSpace_to_latex_one_column(es, id, d) ==
    LET el == es[id]
        mc == el.margin_content
        margin ==
            IF mc # <<>> /\ ~(mc[1] = "str" /\ mc[2] = <<>>)
            THEN IF mc[1] = "str" THEN <<Txt("margin_content", mc[2], id)>>
                 ELSE to_latex(es, mc[2], d)
            ELSE <<>>
    IN  <<Cmd("\\noindent", <<>>, id), Begin("minipage", <<el.width>>, id)>>
        \o children_latex(es, el.children, d, <<>>, <<NL(id)>>)
        \o margin
        \o <<End("minipage", id), Begin("minipage", <<el.right_margin>>, id)>>
        \o <<Cmd("\\null", <<>>, id)>>
        \o <<End("minipage", id), Cmd("\\par", <<>>, id),
             Cmd("\\vspace", <<"1em">>, id)>>

DrawingSpace_to_latex(es, id, d) ==
    LET el == es[id]
        mc == el.margin_content
        margin ==
            IF mc # <<>> /\ ~(mc[1] = "str" /\ mc[2] = <<>>)
            THEN IF mc[1] = "str" THEN <<Txt("margin_content", mc[2], id)>>
                 ELSE to_latex(es, mc[2], d)
            ELSE <<Cmd("\\null", <<>>, id)>>
    IN  <<Cmd("\\noindent", <<>>, id), Begin("minipage", <<el.width>>, id)>>
        \o children_latex(es, el.children, d, <<>>, <<NL(id)>>)
        \o <<End("minipage", id), Begin("minipage", <<el.right_margin>>, id)>>
        \o margin
        \o <<End("minipage", id), Cmd("\\par", <<>>, id),
             Cmd("\\vspace", <<"1em">>, id)>>

\* the multicols block closed only for three columns or more
Exercise_to_latex_unclosed(es, id, d) ==
    LET el == es[id]
        escaped_title == escape_latex_special_chars(el.title)
        items == [i \in 1..Len(el.items) |-> Cmd("\\item", el.items[i], id)]
        list ==
            IF el.items # <<>>
            THEN <<Cmd("\\vspace", <<"-1.5em">>, id)>>
                 \o (IF el.columns > 1
                     THEN <<Begin("multicols", <<ToString(el.columns)>>, id)>>
                     ELSE <<>>)
                 \o <<Begin("enumerate", <<>>, id),
                      Cmd("\\renewcommand", <<"\\labelenumi">>, id)>>
                 \o items
                 \o <<End("enumerate", id)>>
                 \o (IF el.columns > 2 THEN <<End("multicols", id)>>
                     ELSE <<>>)
            ELSE <<>>
    IN  <<Cmd("\\noindent", <<>>, id), Cmd("\\textbf", escaped_title, id),
          Txt("content", el.content, id)>>
        \o list
        \o <<Cmd("\\par", <<>>, id), Cmd("\\vspace", <<"0.5em">>, id)>>
        \o children_latex(es, el.children, d, <<>>, <<NL(id)>>)

Exercise_to_latex(es, id, d) ==
    LET el == es[id]
        escaped_title == escape_latex_special_chars(el.title)
        items == [i \in 1..Len(el.items) |-> Cmd("\\item", el.items[i], id)]
        list ==
            IF el.items # <<>>
            THEN <<Cmd("\\vspace", <<"-1.5em">>, id)>>
                 \o (IF el.columns > 1
                     THEN <<Begin("multicols", <<ToString(el.columns)>>, id)>>
                     ELSE <<>>)
                 \o <<Begin("enumerate", <<>>, id),
                      Cmd("\\renewcommand", <<"\\labelenumi">>, id)>>
                 \o items
                 \o <<End("enumerate", id)>>
                 \o (IF el.columns > 1 THEN <<End("multicols", id)>>
                     ELSE <<>>)
            ELSE <<>>
    IN  <<Cmd("\\noindent", <<>>, id), Cmd("\\textbf", escaped_title, id),
          Txt("content", el.content, id)>>
        \o list
        \o <<Cmd("\\par", <<>>, id), Cmd("\\vspace", <<"0.5em">>, id)>>
        \o children_latex(es, el.children, d, <<>>, <<NL(id)>>)

Text_to_latex(es, id, d) ==
    LET el == es[id]
    IN  (IF el.bold
         THEN <<Cmd("\\noindent", <<>>, id),
                Cmd("\\textbf", escape_latex_special_chars(el.text), id)>>
         ELSE <<Cmd("\\noindent", <<>>, id), Txt("text", el.text, id)>>)
        \o children_latex(es, el.children, d, <<NL(id)>>, <<>>)

\* the bold text put in \textbf as it is
Paragraph_to_latex_bold_raw(es, id, d) ==
    LET el == es[id]
    IN  (IF el.bold
         THEN <<Cmd("\\noindent", <<>>, id), Cmd("\\textbf", el.text, id)>>
         ELSE <<Cmd("\\noindent", <<>>, id), Txt("text", el.text, id)>>)
        \o <<NL(id), NL(id)>>
        \o children_latex(es, el.children, d, <<>>, <<NL(id)>>)

Paragraph_to_latex(es, id, d) ==
    LET el == es[id]
    IN  (IF el.bold
         THEN <<Cmd("\\noindent", <<>>, id),
                Cmd("\\textbf", escape_latex_special_chars(el.text), id)>>
         ELSE <<Cmd("\\noindent", <<>>, id), Txt("text", el.text, id)>>)
        \o <<NL(id), NL(id)>>
        \o children_latex(es, el.children, d, <<>>, <<NL(id)>>)

List_to_latex(es, id, d) ==
    LET el == es[id]
        env == IF el.ordered THEN "enumerate" ELSE "itemize"
    IN  <<Begin(env, <<>>, id)>>
        \o [i \in 1..Len(el.items) |-> Cmd("\\item", el.items[i], id)]
        \o <<End(env, id)>>

Line_to_latex(es, id, d) ==
    LET el == es[id]
        escaped_text == escape_latex_special_chars(el.text)
        style == IF el.line_style \in {"solid", "dashed", "dotted", "double"}
                 THEN el.line_style ELSE "solid"
        line_cmd ==
            IF TruthyS(el.color)
            THEN <<Cmd("\\textcolor", <<el.color>>, id),
                   Cmd("\\leaders", <<style, el.line_thickness>>, id)>>
            ELSE <<Cmd("\\leaders", <<style, el.line_thickness>>, id)>>
    IN  <<Cmd("\\par\\noindent", <<>>, id),
          Cmd("\\makebox", <<"\\textwidth", "s">>, id)>>
        \o line_cmd
        \o <<Cmd("\\textbf", escaped_text, id)>>
        \o line_cmd
        \o <<Cmd("\\par", <<>>, id)>>
        \o children_latex(es, el.children, d, <<>>, <<NL(id)>>)

Divider_to_latex(es, id, d) ==
    LET el == es[id]
        escaped_symbol == escape_latex_special_chars(el.symbol)
    IN  <<Cmd("\\vspace", <<el.vspace_before>>, id),
          Begin("center", <<>>, id),
          Txt("symbol", escaped_symbol, id),
          Cmd("\\hspace", <<el.spacing>>, id),
          Txt("symbol", escaped_symbol, id),
          Cmd("\\hspace", <<el.spacing>>, id),
          Txt("symbol", escaped_symbol, id),
          End("center", id),
          Cmd("\\vspace", <<el.vspace_after>>, id)>>
        \o children_latex(es, el.children, d, <<>>, <<NL(id)>>)

Equation_to_latex(es, id, d) ==
    LET el == es[id]
    IN  IF el.inline THEN <<Cmd("$", el.equation, id)>>
        ELSE <<Cmd("\\[", el.equation, id)>>
             \o OptCmd("\\label", el.label, id)

Align_to_latex(es, id, d) ==
    LET el == es[id]
        env_name == IF el.numbered THEN "align" ELSE "align*"
    IN  (IF TruthyS(el.vspace) THEN <<Cmd("\\vspace", <<el.vspace>>, id)>>
         ELSE <<>>)
        \o <<Begin(env_name, <<>>, id)>>
        \o [i \in 1..Len(el.equations) |-> Txt("equations", el.equations[i], id)]
        \o OptCmd("\\label", el.label, id)
        \o <<End(env_name, id)>>

Table_to_latex(es, id, d) ==
    LET el == es[id]
        num_cols == Len(el.headers)
        rows == [i \in 1..Len(el.rows) |->
                    IF Len(el.rows[i]) # num_cols
                    THEN Raise("ValueError", id)
                    ELSE Cmd("row", el.rows[i], id)]
    IN  <<Begin("table", <<el.position>>, id),
          Cmd("\\centering", <<>>, id),
          Begin("tabular", <<ToString(num_cols)>>, id),
          Cmd("row", el.headers, id)>>
        \o rows
        \o <<End("tabular", id)>>
        \o OptCmd("\\caption", el.caption, id)
        \o OptCmd("\\label", el.label, id)
        \o <<End("table", id)>>

TextBox_to_latex(es, id, d) ==
    LET el == es[id]
    IN  IF el.box_type = "tcolorbox"
        THEN <<Begin("tcolorbox",
                     el.style \o (IF Truthy(el.title) THEN <<"title">> \o el.title
                                  ELSE <<>>), id),
               Txt("content", el.content, id)>>
             \o children_latex(es, el.children, d, <<>>, <<>>)
             \o <<End("tcolorbox", id)>>
        ELSE IF el.box_type = "fancybox"
        THEN <<Cmd("\\fbox{", <<>>, id), Cmd("\\parbox{", <<"0.9\\textwidth">>, id)>>
             \o OptCmd("\\textbf", el.title, id)
             \o <<Txt("content", el.content, id)>>
             \o children_latex(es, el.children, d, <<>>, <<>>)
             \o <<Cmd("}", <<>>, id), Cmd("}", <<>>, id)>>
        ELSE <<Cmd("\\fbox{\\parbox{}}", el.content, id)>>

Image_to_latex(es, id, d) ==
    LET el == es[id]
        path == IF TruthyS(el.processed_path) THEN el.processed_path
                ELSE el.image_path
    IN  IF el.inline
        THEN <<Cmd("{\\centering", <<>>, id),
               Cmd("\\includegraphics", <<path>>, id)>>
             \o OptCmd("\\textit", el.caption, id)
             \o <<Cmd("\\par}", <<>>, id)>>
        ELSE <<Begin("figure", <<el.position>>, id),
               Cmd("\\centering", <<>>, id),
               Cmd("\\includegraphics", <<path>>, id)>>
             \o OptCmd("\\caption", el.caption, id)
             \o OptCmd("\\label", el.label, id)
             \o <<End("figure", id)>>

TikZ_to_latex(es, id, d) ==
    LET el == es[id]
        tikz_code == <<Begin("tikzpicture", <<>>, id), Txt("code", el.code, id),
                       End("tikzpicture", id)>>
    IN  IF el.inline
        THEN <<Cmd("{\\centering", <<>>, id)>>
             \o tikz_code
             \o OptCmd("\\textit", el.caption, id)
             \o <<Cmd("\\par}", <<>>, id)>>
        ELSE <<Begin("figure", <<"h">>, id), Cmd("\\centering", <<>>, id)>>
             \o tikz_code
             \o OptCmd("\\caption", el.caption, id)
             \o OptCmd("\\label", el.label, id)
             \o <<End("figure", id)>>

\* the dynamic dispatch of element.to_latex()
to_latex(es, id, d) ==
    IF d = 0 THEN <<Raise("RecursionError", id)>>
    ELSE LET t == es[id].type
         IN  CASE t = "BlankSpace" -> BlankSpace_to_latex(es, id, d - 1)
               [] t = "Section" -> Section_to_latex(es, id, d - 1)
               [] t = "Chapter" -> Chapter_to_latex(es, id, d - 1)
               [] t = "TableOfContents" -> TableOfContents_to_latex(es, id, d - 1)
               [] t = "DrawingSpace" -> DrawingSpace_to_latex(es, id, d - 1)
               [] t = "Exercise" -> Exercise_to_latex(es, id, d - 1)
               [] t = "Text" -> Text_to_latex(es, id, d - 1)
               [] t = "Paragraph" -> Paragraph_to_latex(es, id, d - 1)
               [] t = "List" -> List_to_latex(es, id, d - 1)
               [] t = "Line" -> Line_to_latex(es, id, d - 1)
               [] t = "Divider" -> Divider_to_latex(es, id, d - 1)
               [] t = "Equation" -> Equation_to_latex(es, id, d - 1)
               [] t = "Align" -> Align_to_latex(es, id, d - 1)
               [] t = "Table" -> Table_to_latex(es, id, d - 1)
               [] t \in {"TextBox", "Note", "Warning", "Info"} ->
                      TextBox_to_latex(es, id, d - 1)
               [] t = "Image" -> Image_to_latex(es, id, d - 1)
               [] t = "TikZ" -> TikZ_to_latex(es, id, d - 1)

(***************************************************************************)
(* renderer/preamble.py PreambleManager.  packages is the insertion-ordered *)
(* dict, a sequence of entries with distinct package names.                *)
(***************************************************************************)
\* d[key] = value on a Python dict: overwrite in place or append
dict_set(d, key, value) ==
    IF \E i \in 1..Len(d) : d[i].package = key
    THEN [i \in 1..Len(d) |->
            IF d[i].package = key THEN [package |-> key, options |-> value]
            ELSE d[i]]
    ELSE Append(d, [package |-> key, options |-> value])

RECURSIVE dict_update(_, _)
dict_update(d, entries) ==
    IF entries = <<>> THEN d
    ELSE dict_update(dict_set(d, Head(entries).package, Head(entries).options),
                     Tail(entries))

_add_default_packages(packages) ==
    dict_update(packages,
        <<[package |-> "amsmath", options |-> None],
          [package |-> "amsfonts", options |-> None],
          [package |-> "amssymb", options |-> None],
          [package |-> "inputenc", options |-> "[utf8]"],
          [package |-> "fontenc", options |-> "[T1]"],
          [package |-> "graphicx", options |-> None],
          [package |-> "hyperref", options |-> None],
          [package |-> "tcolorbox", options |-> None],
          [package |-> "CJKutf8", options |-> None]>>)

PreambleManager ==
    [packages |-> _add_default_packages(<<>>), custom_commands |-> <<>>]

\* a call without options leaves the options of a registered package
PreambleManager_add_package_additive(pm, package, options) ==
    IF options = None
       /\ \E i \in 1..Len(pm.packages) : pm.packages[i].package = package
    THEN pm
    ELSE [pm EXCEPT !.packages = dict_set(pm.packages, package, options)]

PreambleManager_add_package(pm, package, options) ==
    [pm EXCEPT !.packages = dict_set(pm.packages, package, options)]

PreambleManager_add_command(pm, command) ==
    [pm EXCEPT !.custom_commands = Append(pm.custom_commands, command)]

RECURSIVE SelectSeq2(_, _)
\* the entries of a dict the package loop does not skip, in dict order
SelectSeq2(d, skip) ==
    IF d = <<>> THEN <<>>
    ELSE (IF Head(d).package \in skip THEN <<>> ELSE <<Head(d)>>)
         \o SelectSeq2(Tail(d), skip)

\* Path(font_file).stem and .name of the font files of the model
Stem(path) ==
    CASE path = "/cwd/fonts/Noto.ttf" -> "Noto"
      [] path = "/out/fonts/Noto.ttf" -> "Noto"
      [] path = "fonts/Noto.ttf" -> "Noto"
      [] path = "/cwd/missing.ttf" -> "missing"
      [] path = "missing.ttf" -> "missing"
      [] OTHER -> ""

MarginKeys == <<"top", "bottom", "left", "right">>

\* the steps of generate_preamble, in the order of the source
PTok(k, a, o, s) == Tok(k, a, o, 0, s)

DocumentClass == <<PTok("cmd", "\\documentclass", <<"a4paper", "article">>, "class")>>

\* only the legacy font package skipped
PackagesToSkip_CJKutf8_only(use_fontspec) ==
    IF use_fontspec THEN {"CJKutf8"} ELSE {}

PackagesToSkip(use_fontspec) ==
    IF use_fontspec THEN {"CJKutf8", "inputenc", "fontenc"} ELSE {}

FontPackages(use_fontspec) ==
    IF use_fontspec
    THEN <<PTok("usepackage", "fontspec", <<>>, "fontspec"),
           PTok("usepackage", "xeCJK", <<>>, "fontspec")>>
    ELSE <<>>

PackageLoop(pm, packages_to_skip) ==
    LET kept == SelectSeq2(pm.packages, packages_to_skip)
    IN  [i \in 1..Len(kept) |->
            PTok("usepackage", kept[i].package,
                 IF TruthyS(kept[i].options) THEN <<kept[i].options>> ELSE <<>>,
                 "packages")]

\* the directory and the bold variant come from the file system and are
\* left out of the token
FontDeclaration(use_fontspec, font_file, font_name) ==
    LET font_display_name == IF TruthyS(font_name) THEN font_name
                             ELSE Stem(font_file)
    IN  IF use_fontspec /\ TruthyS(font_file)
        THEN <<PTok("cmd", "\\setCJKmainfont", <<font_display_name, font_file>>,
                    "font")>>
        ELSE <<>>

Geometry(margins) ==
    LET margin_options ==
            Flatten([i \in 1..4 |->
                IF MarginKeys[i] \in DOMAIN margins
                THEN <<MarginKeys[i], margins[MarginKeys[i]]>> ELSE <<>>])
    IN  IF DOMAIN margins # {} /\ margin_options # <<>>
        THEN <<PTok("usepackage", "geometry", margin_options, "geometry")>>
        ELSE <<>>

LineSpacing(line_spacing) ==
    IF line_spacing # <<>>
    THEN <<PTok("usepackage", "setspace", <<>>, "setspace"),
           PTok("cmd", "\\setstretch", <<ToString(line_spacing[1])>>,
                "setspace")>>
    ELSE <<>>

CustomCommands(pm) ==
    [i \in 1..Len(pm.custom_commands) |->
        PTok("custom", "", pm.custom_commands[i], "custom")]

\* the geometry directive emitted ahead of the package loop
generate_preamble_geometry_first(pm, margins, line_spacing, font_file, font_name) ==
    LET use_fontspec == font_file # None
    IN  DocumentClass
        \o FontPackages(use_fontspec)
        \o Geometry(margins)
        \o PackageLoop(pm, PackagesToSkip(use_fontspec))
        \o FontDeclaration(use_fontspec, font_file, font_name)
        \o LineSpacing(line_spacing)
        \o CustomCommands(pm)

generate_preamble(pm, margins, line_spacing, font_file, font_name) ==
    LET use_fontspec == font_file # None
    IN  DocumentClass
        \o FontPackages(use_fontspec)
        \o PackageLoop(pm, PackagesToSkip(use_fontspec))
        \o FontDeclaration(use_fontspec, font_file, font_name)
        \o Geometry(margins)
        \o LineSpacing(line_spacing)
        \o CustomCommands(pm)

(***************************************************************************)
(* core/document.py Document and renderer/latex_renderer.py LaTeXRenderer. *)
(* line_spacing is <<>> for None and <<n>> for the number n.               *)
(***************************************************************************)
\* Document.__init__ with every argument; margins <<>> is None or {}
Document_init(title, author, date, font, margins, font_file, font_name, line_spacing) ==
    [title |-> title, author |-> author, date |-> date, abstract |-> NoneT,
     font |-> font, font_file |-> font_file,
     font_name |-> IF TruthyS(font_name) THEN font_name
                   ELSE IF TruthyS(font_file) THEN Stem(font_file) ELSE None,
     margins |-> margins, line_spacing |-> line_spacing, content |-> <<>>]

\* Document(title, author, date): the other arguments at their defaults
Document(title, author, date) ==
    Document_init(title, author, date, "min", <<>>, None, None, <<>>)

\* LaTeXCompiler(engine=config.get("compilation.engine", "pdflatex"), ...)
LaTeXCompiler == [engine |-> "pdflatex"]

\* sys.getrecursionlimit(), scaled to the trees of the model: deeper than
\* any tree without a cycle
RecursionLimit == MaxElems + 1

\* \today emitted whenever the date is missing
_render_title_today(doc) ==
    LET P(k, a, o) == Tok(k, a, o, 0, "title")
    IN  IF ~Truthy(doc.title) THEN <<>>
        ELSE <<P("begin", "center", <<>>),
               P("text", "title", doc.title)>>
             \o (IF Truthy(doc.author) THEN <<P("text", "author", doc.author)>>
                 ELSE <<>>)
             \o (IF Truthy(doc.date) THEN <<P("text", "date", doc.date)>>
                 ELSE <<P("cmd", "\\today", <<>>)>>)
             \o <<P("end", "center", <<>>),
                  P("cmd", "\\vspace", <<"2em">>)>>

_render_title(doc) ==
    LET P(k, a, o) == Tok(k, a, o, 0, "title")
    IN  IF ~Truthy(doc.title) THEN <<>>
        ELSE <<P("begin", "center", <<>>),
               P("text", "title", doc.title)>>
             \o (IF Truthy(doc.author) THEN <<P("text", "author", doc.author)>>
                 ELSE <<>>)
             \o (IF Truthy(doc.date) THEN <<P("text", "date", doc.date)>>
                 ELSE IF Truthy(doc.author)
                      THEN <<P("cmd", "\\today", <<>>)>> ELSE <<>>)
             \o <<P("end", "center", <<>>),
                  P("cmd", "\\vspace", <<"2em">>)>>

\* the CJK environment closed whether or not it was opened
render_document_CJK_end(doc, pm, es) ==
    LET P(k, a, o, s) == Tok(k, a, o, 0, s)
        title_content == _render_title(doc)
    IN  generate_preamble(pm, doc.margins, doc.line_spacing, doc.font_file,
                          doc.font_name)
        \o <<P("nl", "", <<>>, "doc"), P("begin", "document", <<>>, "doc")>>
        \o (IF doc.font_file = None
            THEN <<P("begin", "CJK", <<"UTF8", doc.font>>, "doc")>> ELSE <<>>)
        \o (IF title_content # <<>> THEN title_content ELSE <<>>)
        \o (IF Truthy(doc.abstract)
            THEN <<P("begin", "abstract", <<>>, "abstract"),
                   P("text", "abstract", doc.abstract, "abstract"),
                   P("end", "abstract", <<>>, "abstract")>>
            ELSE <<>>)
        \o children_latex(es, doc.content, RecursionLimit, <<>>,
                          <<P("nl", "", <<>>, "doc")>>)
        \o <<P("end", "CJK", <<>>, "doc")>>
        \o <<P("end", "document", <<>>, "doc")>>

render_document(doc, pm, es) ==
    LET P(k, a, o, s) == Tok(k, a, o, 0, s)
        title_content == _render_title(doc)
    IN  generate_preamble(pm, doc.margins, doc.line_spacing, doc.font_file,
                          doc.font_name)
        \o <<P("nl", "", <<>>, "doc"), P("begin", "document", <<>>, "doc")>>
        \o (IF doc.font_file = None
            THEN <<P("begin", "CJK", <<"UTF8", doc.font>>, "doc")>> ELSE <<>>)
        \o (IF title_content # <<>> THEN title_content ELSE <<>>)
        \o (IF Truthy(doc.abstract)
            THEN <<P("begin", "abstract", <<>>, "abstract"),
                   P("text", "abstract", doc.abstract, "abstract"),
                   P("end", "abstract", <<>>, "abstract")>>
            ELSE <<>>)
        \o children_latex(es, doc.content, RecursionLimit, <<>>,
                          <<P("nl", "", <<>>, "doc")>>)
        \o (IF doc.font_file = None
            THEN <<P("end", "CJK", <<>>, "doc")>> ELSE <<>>)
        \o <<P("end", "document", <<>>, "doc")>>

\* what a call of Document.to_latex gives its caller: the markup, or the
\* exception that ended the render
Returned(toks) ==
    IF Raises(toks)
    THEN <<toks[CHOOSE i \in 1..Len(toks) :
                  /\ toks[i].k = "raise"
                  /\ \A j \in 1..(i - 1) : toks[j].k # "raise"]>>
    ELSE toks

Call(op, on, ret, elem) == [op |-> op, on |-> on, ret |-> ret, elem |-> elem]

\* Document.to_latex
\* the multicol package registered while rendering
Document_to_latex_registering ==
    /\ output' = Returned(render_document(document, preamble_manager, elems))
    /\ preamble_manager' =
          IF \E id \in 1..Len(elems) :
                elems[id].type = "Exercise" /\ elems[id].columns > 1
          THEN PreambleManager_add_package(preamble_manager, "multicol", None)
          ELSE preamble_manager
    /\ last' = Call("to_latex", 0, 0, 0)
    /\ UNCHANGED <<document, elems, builders, openedOn, pkglog, margin_args,
                   output_dir, resources, font_result, compiler, steps>>

Document_to_latex ==
    /\ output' = Returned(render_document(document, preamble_manager, elems))
    /\ last' = Call("to_latex", 0, 0, 0)
    /\ UNCHANGED <<document, preamble_manager, elems, builders, openedOn, pkglog, margin_args,
                   output_dir, resources, font_result, compiler, steps>>

(***************************************************************************)
(* The element API used directly: construct an element, add it to an       *)
(* element (base.py LaTeXElement.add) or to the Document (Document.add).   *)
(***************************************************************************)
T1 == <<"t">>

\* element = Class(...): one element of each class, with its defaults
New(el) ==
    /\ elems' = Append(elems, el)
    /\ last' = Call("new", 0, 0, Len(elems) + 1)
    /\ output' = <<>>
    /\ UNCHANGED <<document, preamble_manager, builders, openedOn, pkglog, margin_args,
                   output_dir, resources, font_result, compiler, steps>>

\* LaTeXElement.add on the heap: element.parent = self; children.append
LaTeXElement_add(es, self, element) ==
    LET es1 == [es EXCEPT ![element].parent = self]
    IN  [es1 EXCEPT ![self].children = Append(@, element)]

\* Document.add: content.append, the element's parent is left as it is
Document_add(doc, element) ==
    [doc EXCEPT !.content = Append(@, element)]

\* container.add(element), container 0 being the Document
add(container, element) ==
    /\ IF container = 0
       THEN /\ document' = Document_add(document, element)
            /\ UNCHANGED elems
       ELSE /\ elems' = LaTeXElement_add(elems, container, element)
            /\ UNCHANGED document
    /\ last' = Call("add", 0, 0, element)
    /\ output' = <<>>
    /\ UNCHANGED <<preamble_manager, builders, openedOn, pkglog, margin_args,
                   output_dir, resources, font_result, compiler, steps>>

\* the number of add calls made so far
Adds(doc, es) ==
    LET RECURSIVE Sum(_)
        Sum(i) == IF i = 0 THEN 0 ELSE Len(es[i].children) + Sum(i - 1)
    IN  Len(doc.content) + Sum(Len(es))

(***************************************************************************)
(* builder/document_builder.py.  A builder object is a record; builders[1] *)
(* is the DocumentBuilder.  A call returns a builder (last.ret) or raises  *)
(* (last.ret = -1).  A method that the three builder classes define with   *)
(* the same body is one action, taking the builder it is called on.        *)
(***************************************************************************)
DocumentBuilder == [type |-> "DocumentBuilder", current_section |-> 0]

SectionBuilder(doc_builder, section) ==
    [type |-> "SectionBuilder", doc_builder |-> doc_builder,
     section |-> section]

\* parent_builder = 0 is the default argument None
DrawingSpaceBuilder(doc_builder, drawing_space, parent_builder) ==
    [type |-> "DrawingSpaceBuilder", doc_builder |-> doc_builder,
     drawing_space |-> drawing_space,
     parent_builder |-> IF parent_builder # 0 THEN parent_builder
                        ELSE doc_builder]

BuilderIds == 1..Len(builders)

IsDoc(b) == builders[b].type = "DocumentBuilder"
IsSec(b) == builders[b].type = "SectionBuilder"
IsDS(b) == builders[b].type = "DrawingSpaceBuilder"

\* self.document, self.section or self.drawing_space: where b adds
\* a DocumentBuilder attaching to its current section, when it has one
Target_current_section(b) ==
    CASE IsDoc(b) -> builders[b].current_section
      [] IsSec(b) -> builders[b].section
      [] IsDS(b) -> builders[b].drawing_space

Target(b) ==
    CASE IsDoc(b) -> 0
      [] IsSec(b) -> builders[b].section
      [] IsDS(b) -> builders[b].drawing_space

\* self for a DocumentBuilder, self.doc_builder for the others
DocBuilderOf(b) == IF IsDoc(b) THEN b ELSE builders[b].doc_builder

\* Files that exist, and Path(p).absolute()
Files == {"fonts/Noto.ttf"}

Absolute(path) ==
    CASE path = "fonts/Noto.ttf" -> "/cwd/fonts/Noto.ttf"
      [] path = "missing.ttf" -> "/cwd/missing.ttf"
      [] OTHER -> path

\* <container>.add(Class(...)) for the element el a builder method constructs
Attach(b, el, op, ret) ==
    LET id == Len(elems) + 1
        es1 == Append(elems, el)
    IN  /\ IF Target(b) = 0
           THEN /\ document' = Document_add(document, id)
                /\ elems' = es1
           ELSE /\ elems' = LaTeXElement_add(es1, Target(b), id)
                /\ UNCHANGED document
        /\ last' = Call(op, b, ret, id)
        /\ output' = <<>>

\* DocumentBuilder.add_package as the other methods call it
Register(package, options) ==
    /\ preamble_manager' =
           PreambleManager_add_package(preamble_manager, package, options)
    /\ pkglog' = Append(pkglog, [package |-> package, options |-> options])
    /\ UNCHANGED <<margin_args, output_dir, resources, font_result, compiler, steps>>

Leaf(b, el, op) ==
    /\ Attach(b, el, op, b)
    /\ UNCHANGED <<preamble_manager, builders, openedOn, pkglog, margin_args,
                   output_dir, resources, font_result, compiler, steps>>

set_title(title) ==
    /\ document' = [document EXCEPT !.title = title]
    /\ last' = Call("set_title", 1, 1, 0)
    /\ output' = <<>>
    /\ UNCHANGED <<preamble_manager, elems, builders, openedOn, pkglog, margin_args,
                   output_dir, resources, font_result, compiler, steps>>

set_abstract(abstract) ==
    /\ document' = [document EXCEPT !.abstract = abstract]
    /\ last' = Call("set_abstract", 1, 1, 0)
    /\ output' = <<>>
    /\ UNCHANGED <<preamble_manager, elems, builders, openedOn, pkglog, margin_args,
                   output_dir, resources, font_result, compiler, steps>>

set_font(font) ==
    /\ document' = [document EXCEPT !.font = font]
    /\ last' = Call("set_font", 1, 1, 0)
    /\ output' = <<>>
    /\ UNCHANGED <<preamble_manager, elems, builders, openedOn, pkglog, margin_args,
                   output_dir, resources, font_result, compiler, steps>>

set_font_file(font_file, font_name) ==
    /\ IF font_file \notin Files
       THEN /\ last' = Call("set_font_file", 1, -1, 0)
            /\ UNCHANGED document
       ELSE /\ document' =
                  [document EXCEPT
                      !.font_file = Absolute(font_file),
                      !.font_name = IF TruthyS(font_name) THEN font_name
                                    ELSE Stem(Absolute(font_file))]
            /\ last' = Call("set_font_file", 1, 1, 0)
    /\ output' = <<>>
    /\ UNCHANGED <<preamble_manager, elems, builders, openedOn, pkglog, margin_args,
                   output_dir, resources, font_result, compiler, steps>>

\* an edge that is not given is dropped from the dict
SetMargin_replace(margins, key, value) ==
    IF value = None THEN [k \in DOMAIN margins \ {key} |-> margins[k]]
    ELSE [k \in DOMAIN margins \cup {key} |->
             IF k = key THEN value ELSE margins[k]]

\* the margins dict after margins[key] = value for each value that is given
SetMargin(margins, key, value) ==
    IF value = None THEN margins
    ELSE [k \in DOMAIN margins \cup {key} |->
             IF k = key THEN value ELSE margins[k]]

set_margins(top, bottom, left, right) ==
    /\ document' =
          [document EXCEPT !.margins =
              SetMargin(SetMargin(SetMargin(SetMargin(@, "top", top),
                  "bottom", bottom), "left", left), "right", right)]
    /\ margin_args' = [top |-> top, bottom |-> bottom, left |-> left,
                       right |-> right]
    /\ last' = Call("set_margins", 1, 1, 0)
    /\ output' = <<>>
    /\ UNCHANGED <<preamble_manager, elems, builders, openedOn, pkglog,
                   output_dir, resources, font_result, compiler, steps>>

set_line_spacing(spacing) ==
    /\ IF spacing <= 0
       THEN /\ last' = Call("set_line_spacing", 1, -1, 0)
            /\ UNCHANGED document
       ELSE /\ document' = [document EXCEPT !.line_spacing = <<spacing>>]
            /\ last' = Call("set_line_spacing", 1, 1, 0)
    /\ output' = <<>>
    /\ UNCHANGED <<preamble_manager, elems, builders, openedOn, pkglog, margin_args,
                   output_dir, resources, font_result, compiler, steps>>

add_package(package, options) ==
    /\ Register(package, options)
    /\ last' = Call("add_package", 1, 1, 0)
    /\ output' = <<>>
    /\ UNCHANGED <<document, elems, builders, openedOn>>

\* PreambleManager.add_command, called on document.preamble_manager
add_command(command) ==
    /\ preamble_manager' = PreambleManager_add_command(preamble_manager, command)
    /\ last' = Call("add_command", 0, 0, 0)
    /\ output' = <<>>
    /\ UNCHANGED <<document, elems, builders, openedOn, pkglog, margin_args,
                   output_dir, resources, font_result, compiler, steps>>

\* the defaults of Section.__init__ taken for those of add_section
add_section_defaults_numbered ==
    [level |-> 1, label |-> NoneT, numbered |-> TRUE]

\* the values add_section takes for the arguments a call leaves out
add_section_defaults ==
    [level |-> 1, label |-> NoneT, numbered |-> FALSE]

\* the new section put under the current section, when there is one
add_section_nested(b, title, level, label, numbered) ==
    /\ IsDoc(b)
    /\ LET id == Len(elems) + 1
           es1 == Append(elems, Section(title, level, label, numbered))
       IN  /\ IF builders[b].current_section = 0
              THEN elems' = es1 /\ document' = Document_add(document, id)
              ELSE /\ elems' = LaTeXElement_add(es1,
                                                builders[b].current_section, id)
                   /\ UNCHANGED document
           /\ builders' = Append([builders EXCEPT ![b].current_section = id],
                                 SectionBuilder(b, id))
           /\ openedOn' = Append(openedOn, b)
           /\ last' = Call("add_section", b, Len(builders) + 1, id)
    /\ output' = <<>>
    /\ UNCHANGED <<preamble_manager, pkglog, margin_args,
                   output_dir, resources, font_result, compiler, steps>>

add_section(b, title, level, label, numbered) ==
    /\ IsDoc(b)
    /\ LET id == Len(elems) + 1
       IN  /\ elems' = Append(elems, Section(title, level, label, numbered))
           /\ document' = Document_add(document, id)
           /\ builders' = Append([builders EXCEPT ![b].current_section = id],
                                 SectionBuilder(b, id))
           /\ openedOn' = Append(openedOn, b)
           /\ last' = Call("add_section", b, Len(builders) + 1, id)
    /\ output' = <<>>
    /\ UNCHANGED <<preamble_manager, pkglog, margin_args,
                   output_dir, resources, font_result, compiler, steps>>

add_text(b, text, bold) == Leaf(b, Text(text, bold), "add_text")

BeginCenter == "\\begin{center}"
EndCenter == "\\end{center}"

add_abstract(b, text, bold, centered) ==
    /\ IsDoc(b) \/ IsSec(b)
    /\ LET t1 == IF bold THEN <<"\\textbf", "{">> \o text \o <<"}">> ELSE text
           formatted_text == IF centered
                             THEN <<BeginCenter, "\n">> \o t1
                                  \o <<"\n", EndCenter>>
                             ELSE t1
       IN  Leaf(b, Paragraph(formatted_text, FALSE), "add_abstract")

add_paragraph(b, text, bold) == Leaf(b, Paragraph(text, bold), "add_paragraph")

\* _add_line_to_container, reached from add_line of the three builders
add_line(b, text, line_style, line_thickness, color) ==
    /\ IF TruthyS(color) THEN Register("xcolor", None)
       ELSE UNCHANGED <<preamble_manager, pkglog, margin_args,
                   output_dir, resources, font_result, compiler, steps>>
    /\ Attach(b, Line(text, line_style, line_thickness, color), "add_line", b)
    /\ UNCHANGED <<builders, openedOn>>

add_divider(b, symbol) ==
    Leaf(b, Divider(symbol, "10em", "0.0em", None, None), "add_divider")

add_image(b, image_path, caption, label) ==
    Leaf(b, Image(image_path, caption, label, FALSE), "add_image")

add_textbox(b, content, title, box_type) ==
    Leaf(b, TextBox(content, title, box_type, <<>>), "add_textbox")

add_note(b, content) == Leaf(b, Note(content), "add_note")

add_warning(b, content) == Leaf(b, Warning(content), "add_warning")

add_info(b, content) == Leaf(b, Info(content), "add_info")

add_equation(b, equation, inline, label) ==
    Leaf(b, Equation(equation, inline, label), "add_equation")

add_align(b, equations, label, numbered) ==
    /\ IsSec(b) \/ IsDS(b)
    /\ Leaf(b, Align(equations, label, numbered, None), "add_align")

add_list(b, items, ordered) ==
    /\ IsSec(b) \/ IsDS(b)
    /\ Leaf(b, List(items, ordered), "add_list")

add_table(b, headers, rows) ==
    Leaf(b, Table(headers, rows, NoneT, NoneT), "add_table")

add_blank_space(b, height) == Leaf(b, BlankSpace(height), "add_blank_space")

DocumentBuilder_add_drawing_space(b, drawing_space) ==
    DrawingSpaceBuilder(b, drawing_space, b)

\* the DrawingSpaceBuilder made without its parent builder
SectionBuilder_add_drawing_space_no_parent(b, drawing_space) ==
    DrawingSpaceBuilder(builders[b].doc_builder, drawing_space, 0)

SectionBuilder_add_drawing_space(b, drawing_space) ==
    DrawingSpaceBuilder(builders[b].doc_builder, drawing_space, b)

add_drawing_space(b, width, right_margin) ==
    /\ IsDoc(b) \/ IsSec(b)
    /\ Attach(b, DrawingSpace(width, right_margin, <<>>), "add_drawing_space",
              Len(builders) + 1)
    /\ builders' =
          Append(builders,
                 IF IsDoc(b)
                 THEN DocumentBuilder_add_drawing_space(b, Len(elems) + 1)
                 ELSE SectionBuilder_add_drawing_space(b, Len(elems) + 1))
    /\ openedOn' = Append(openedOn, b)
    /\ UNCHANGED <<preamble_manager, pkglog, margin_args,
                   output_dir, resources, font_result, compiler, steps>>

add_exercise(b, title, content, items, columns) ==
    /\ IF columns > 1 THEN Register("multicol", None)
       ELSE UNCHANGED <<preamble_manager, pkglog, margin_args,
                   output_dir, resources, font_result, compiler, steps>>
    /\ Attach(b, Exercise(title, content, items, columns), "add_exercise", b)
    /\ UNCHANGED <<builders, openedOn>>

end_section(b) ==
    /\ IsSec(b)
    /\ last' = Call("end_section", b, builders[b].doc_builder, 0)
    /\ output' = <<>>
    /\ UNCHANGED <<document, preamble_manager, elems, builders, openedOn,
                   pkglog, margin_args,
                   output_dir, resources, font_result, compiler, steps>>

\* the parameters add_drawing_space declares, on both builders
add_drawing_space_parameters == {"width", "right_margin"}

\* builder.add_drawing_space(**kw): a keyword the method does not declare
\* raises TypeError before the body runs
add_drawing_space_keywords(b, kw) ==
    /\ IsDoc(b) \/ IsSec(b)
    /\ IF DOMAIN kw \subseteq add_drawing_space_parameters
       THEN add_drawing_space(b,
                IF "width" \in DOMAIN kw THEN kw.width ELSE "0.7\\textwidth",
                IF "right_margin" \in DOMAIN kw THEN kw.right_margin ELSE "5cm")
       ELSE /\ last' = Call("add_drawing_space", b, -1, 0)
            /\ output' = <<>>
            /\ UNCHANGED <<document, preamble_manager, elems, builders,
                           openedOn, pkglog, margin_args, output_dir,
                           resources, font_result, compiler, steps>>

end_drawing_space(b) ==
    /\ IsDS(b)
    /\ last' = Call("end_drawing_space", b,
                    IF builders[b].parent_builder = 0
                    THEN builders[b].doc_builder
                    ELSE builders[b].parent_builder, 0)
    /\ output' = <<>>
    /\ UNCHANGED <<document, preamble_manager, elems, builders, openedOn,
                   pkglog, margin_args,
                   output_dir, resources, font_result, compiler, steps>>

(***************************************************************************)
(* Reading the tree and the rendered output.                               *)
(***************************************************************************)
Ids == 1..Len(elems)

\* the child list of a container, 0 being the Document
ChildList(c) == IF c = 0 THEN document.content ELSE elems[c].children

\* the containers whose child list holds e, and how often they hold it
Holders(e) == {c \in 0..Len(elems) : e \in Range(ChildList(c))}

Occurrences(e) ==
    LET RECURSIVE Sum(_)
        Sum(c) == Cardinality({i \in DOMAIN ChildList(c) : ChildList(c)[i] = e})
                  + (IF c = 0 THEN 0 ELSE Sum(c - 1))
    IN  Sum(Len(elems))

Unattached == {e \in Ids : Holders(e) = {}}

\* the elements an element renders: its children and its margin content
Kids(id) ==
    Range(elems[id].children)
    \cup (IF elems[id].type = "DrawingSpace"
             /\ elems[id].margin_content # <<>>
             /\ elems[id].margin_content[1] = "elem"
          THEN {elems[id].margin_content[2]} ELSE {})

RECURSIVE Closure(_, _)
Closure(S, n) ==
    IF n = 0 THEN S ELSE Closure(S \cup UNION {Kids(x) : x \in S}, n - 1)

Subtree(id) == Closure({id}, Len(elems))

IsRendered == last.op = "to_latex" /\ ~Raises(output)

\* the positions of the output that the elements of S emitted
Pos(S) == {i \in 1..Len(output) : output[i].s = "elem" /\ output[i].e \in S}

Min(S) == CHOOSE x \in S : \A y \in S : x <= y
Max(S) == CHOOSE x \in S : \A y \in S : x >= y
IsInterval(S) == S = {} \/ S = Min(S)..Max(S)

(***************************************************************************)
(* Specifications.  Every one starts from a new Document and PreambleManager. *)
(***************************************************************************)
InitDocument ==
    /\ document = Document(NoneT, <<>>, NoneT)
    /\ preamble_manager = PreambleManager
    /\ elems = <<>>
    /\ builders = <<>>
    /\ openedOn = <<>>
    /\ pkglog = <<>>
    /\ margin_args = [top |-> None, bottom |-> None, left |-> None,
                      right |-> None]
    /\ output_dir = {}
    /\ resources = {}
    /\ font_result = None
    /\ compiler = LaTeXCompiler
    /\ steps = <<>>
    /\ last = Call("init", 0, 0, 0)
    /\ output = <<>>

\* SpecAdd: elements are constructed and added, in any way the API allows
AddKinds == {Section(T1, 1, NoneT, TRUE), Paragraph(T1, FALSE)}

AddNew == \E el \in AddKinds : Len(elems) < MaxElems /\ New(el)

AddAny ==
    \E c \in 0..Len(elems), e \in Ids :
        Adds(document, elems) < MaxAdds /\ add(c, e)

NextAdd == AddNew \/ AddAny

SpecAdd == InitDocument /\ [][NextAdd]_vars

\* SpecTree: each element is constructed, added once, and the Document is
\* rendered at any time
TreeKinds ==
    {Section(T1, 1, NoneT, TRUE), Chapter(T1, NoneT),
     DrawingSpace("w", "m", <<>>), Paragraph(T1, FALSE),
     Equation(T1, FALSE, NoneT), List(<<T1>>, FALSE),
     TextBox(T1, NoneT, "simple", <<>>)}

TreeNew ==
    \E el \in TreeKinds :
        Len(elems) < MaxElems /\ Unattached = {} /\ New(el)

TreeAdd == \E c \in 0..Len(elems), e \in Unattached : add(c, e)

NextTree == TreeNew \/ TreeAdd \/ Document_to_latex

SpecTree == InitDocument /\ [][NextTree]_vars

\* a new DocumentBuilder(title, author, date)
InitBuilder(title, author, date) ==
    /\ document = Document(title, author, date)
    /\ preamble_manager = PreambleManager
    /\ elems = <<>>
    /\ builders = <<DocumentBuilder>>
    /\ openedOn = <<0>>
    /\ pkglog = <<>>
    /\ margin_args = [top |-> None, bottom |-> None, left |-> None,
                      right |-> None]
    /\ output_dir = {}
    /\ resources = {}
    /\ font_result = None
    /\ compiler = LaTeXCompiler
    /\ steps = <<>>
    /\ last = Call("init", 0, 1, 0)
    /\ output = <<>>

\* SpecBuilder: a document built by calls of every add method, on any of
\* the builders the caller holds, and rendered at any time
InitBuild == InitBuilder(NoneT, <<>>, NoneT)

More == Len(elems) < MaxBuilt

B_add_section ==
    \E b \in BuilderIds : More /\ add_section(b, T1, 1, NoneT, FALSE)

B_add_text == \E b \in BuilderIds : More /\ add_text(b, T1, FALSE)

B_add_abstract ==
    \E b \in BuilderIds, centered \in BOOLEAN :
        More /\ add_abstract(b, T1, TRUE, centered)

B_add_paragraph == \E b \in BuilderIds : More /\ add_paragraph(b, T1, FALSE)

B_add_line ==
    \E b \in BuilderIds : More /\ add_line(b, T1, "solid", "5pt", "gray")

B_add_divider == \E b \in BuilderIds : More /\ add_divider(b, <<"*">>)

B_add_image ==
    \E b \in BuilderIds : More /\ add_image(b, "a.png", NoneT, NoneT)

B_add_textbox ==
    \E b \in BuilderIds, box_type \in {"tcolorbox", "fancybox", "simple"} :
        More /\ add_textbox(b, T1, NoneT, box_type)

B_add_note == \E b \in BuilderIds : More /\ add_note(b, T1)

B_add_warning == \E b \in BuilderIds : More /\ add_warning(b, T1)

B_add_info == \E b \in BuilderIds : More /\ add_info(b, T1)

B_add_equation ==
    \E b \in BuilderIds : More /\ add_equation(b, T1, FALSE, NoneT)

B_add_align ==
    \E b \in BuilderIds, numbered \in BOOLEAN :
        More /\ add_align(b, <<T1>>, NoneT, numbered)

B_add_list ==
    \E b \in BuilderIds, ordered \in BOOLEAN :
        More /\ add_list(b, <<T1>>, ordered)

B_add_table ==
    \E b \in BuilderIds : More /\ add_table(b, <<"h1", "h2">>, <<<<"a", "b">>>>)

B_add_blank_space == \E b \in BuilderIds : More /\ add_blank_space(b, "5cm")

B_add_drawing_space ==
    \E b \in BuilderIds : More /\ add_drawing_space(b, "0.7\\textwidth", "5cm")

B_add_exercise ==
    \E b \in BuilderIds, items \in {<<>>, <<T1, T1>>}, columns \in {1, 2} :
        More /\ add_exercise(b, T1, T1, items, columns)

B_end_section == \E b \in BuilderIds : end_section(b)

B_end_drawing_space == \E b \in BuilderIds : end_drawing_space(b)

NextBuilder ==
    \/ B_add_section \/ B_add_text \/ B_add_abstract \/ B_add_paragraph
    \/ B_add_line \/ B_add_divider \/ B_add_image \/ B_add_textbox
    \/ B_add_note \/ B_add_warning \/ B_add_info \/ B_add_equation
    \/ B_add_align \/ B_add_list \/ B_add_table \/ B_add_blank_space
    \/ B_add_drawing_space \/ B_add_exercise
    \/ B_end_section \/ B_end_drawing_space
    \/ Document_to_latex

SpecBuilder == InitBuild /\ [][NextBuilder]_vars

\* SpecScope: sections and drawing spaces opened and closed, paragraphs
\* added in between, each call on any of the builders the caller holds
Scoped == Len(elems) < MaxScoped

S_add_section ==
    \E b \in BuilderIds : Scoped /\ add_section(b, T1, 1, NoneT, FALSE)

S_add_drawing_space ==
    \E b \in BuilderIds : Scoped /\ add_drawing_space(b, "0.7\\textwidth", "5cm")

S_add_paragraph == \E b \in BuilderIds : Scoped /\ add_paragraph(b, T1, FALSE)

NextScope ==
    \/ S_add_section \/ S_add_drawing_space \/ S_add_paragraph
    \/ B_end_section \/ B_end_drawing_space

SpecScope == InitBuild /\ [][NextScope]_vars

(***************************************************************************)
(* C1: the rendered document closes every block it opens, and each close   *)
(* names the block opened last among those still open.                     *)
(***************************************************************************)
\* the blocks a text opens and closes: markup a builder put into a text
TextEvents(t) ==
    Flatten([i \in 1..Len(t) |->
        IF t[i] = BeginCenter THEN <<[open |-> TRUE, env |-> "center"]>>
        ELSE IF t[i] = EndCenter THEN <<[open |-> FALSE, env |-> "center"]>>
        ELSE <<>>])

Events(tok) ==
    (IF tok.k = "begin" THEN <<[open |-> TRUE, env |-> tok.a]>>
     ELSE IF tok.k = "end" THEN <<[open |-> FALSE, env |-> tok.a]>>
     ELSE <<>>)
    \o (IF tok.k \in {"text", "cmd"} THEN TextEvents(tok.o) ELSE <<>>)

AllEvents(toks) == Flatten([i \in 1..Len(toks) |-> Events(toks[i])])

RECURSIVE Nested(_, _)
Nested(events, open) ==
    IF events = <<>> THEN open = <<>>
    ELSE IF Head(events).open
         THEN Nested(Tail(events), <<Head(events).env>> \o open)
         ELSE /\ open # <<>>
              /\ Head(open) = Head(events).env
              /\ Nested(Tail(events), Tail(open))

C1_BalancedBlocks == IsRendered => Nested(AllEvents(output), <<>>)

\* a rendered exercise in two columns inside a drawing space
C1_Witness ==
    /\ IsRendered
    /\ \E i, j \in 1..Len(output) :
          /\ i < j
          /\ output[i].k = "begin" /\ output[i].a = "minipage"
          /\ output[j].k = "begin" /\ output[j].a = "multicols"
          /\ elems[output[j].e].parent = output[i].e

(***************************************************************************)
(* C3: end_drawing_space returns the builder add_drawing_space was called  *)
(* on, end_section the DocumentBuilder add_section was called on, and the  *)
(* element the next call in the chain adds goes to the child list of that  *)
(* builder's container, not to the section or drawing space just closed.   *)
(***************************************************************************)
Closes == {"end_section", "end_drawing_space"}

C3_CloseReturnsOpener ==
    [][/\ last'.op \in Closes => last'.ret = openedOn'[last'.on]
       /\ (last.op \in Closes /\ last'.on = last.ret /\ last'.elem # 0) =>
              /\ last'.elem \in
                    Range(IF Target(openedOn[last.on]) = 0
                          THEN document'.content
                          ELSE elems'[Target(openedOn[last.on])].children)
              /\ last'.elem \notin Range(elems'[Target(last.on)].children)]_vars

\* a drawing space opened in a section has been closed
C3_Witness ==
    /\ last.op = "end_drawing_space"
    /\ IsSec(last.ret)
    /\ elems[Target(last.on)].children # <<>>

(***************************************************************************)
(* C2: after any sequence of add operations no element is in the child     *)
(* lists of two containers nor twice in one, and a parent back-reference   *)
(* that is set names the one container whose child list holds the element. *)
(***************************************************************************)
C2_SingleParent ==
    \A e \in Ids :
        /\ Occurrences(e) <= 1
        /\ elems[e].parent # 0 => Holders(e) = {elems[e].parent}

(***************************************************************************)
(* C4: in the rendered output the subtrees of the children of the Document *)
(* and of every rendered Section, Chapter and DrawingSpace are each        *)
(* present and contiguous, lie after the container's opening markup, and   *)
(* follow one another in the order the children were added.                *)
(***************************************************************************)
Opening(c) ==
    IF c = 0
    THEN Min({i \in 1..Len(output) :
                output[i].k = "begin" /\ output[i].a = "document"})
    ELSE Min(Pos({c}))

InOrder(c) ==
    LET ch == ChildList(c)
    IN  /\ \A i \in 1..Len(ch) :
              /\ Pos(Subtree(ch[i])) # {}
              /\ IsInterval(Pos(Subtree(ch[i])))
              /\ Min(Pos(Subtree(ch[i]))) > Opening(c)
        /\ \A i, j \in 1..Len(ch) :
              i < j => Max(Pos(Subtree(ch[i]))) < Min(Pos(Subtree(ch[j])))

C4_DepthFirstInOrder ==
    IsRendered =>
        /\ InOrder(0)
        /\ \A c \in Ids :
              (elems[c].type \in {"Section", "Chapter", "DrawingSpace"}
               /\ Pos({c}) # {}) => InOrder(c)

\* a rendered container with two children, the first with a child of its own
C4_Witness ==
    /\ IsRendered
    /\ \E c \in Ids :
          /\ elems[c].type \in {"Section", "Chapter", "DrawingSpace"}
          /\ Pos({c}) # {}
          /\ Len(elems[c].children) = 2

(***************************************************************************)
(* C5: whenever an element of any type is rendered, every child added to   *)
(* it is rendered too, after the element's own markup.                     *)
(***************************************************************************)
C5_ChildrenRendered ==
    IsRendered =>
        \A p \in Ids :
            Pos({p}) # {} =>
                \A i \in 1..Len(elems[p].children) :
                    /\ Pos({elems[p].children[i]}) # {}
                    /\ Min(Pos({elems[p].children[i]})) > Min(Pos({p}))

(***************************************************************************)
(* SpecDoc: a DocumentBuilder constructed with any title, author and date, *)
(* title, abstract and font file set, sections and paragraphs added, and   *)
(* the Document rendered at any time.                                      *)
(***************************************************************************)
InitDoc ==
    \E title \in {NoneT, <<>>, <<"T">>}, author \in {<<>>, <<"A">>},
       date \in {NoneT, <<"D">>} :
        InitBuilder(title, author, date)

D_set_title == \E title \in {<<>>, <<"T">>} : set_title(title)

D_set_abstract == \E abstract \in {<<>>, <<"B">>} : set_abstract(abstract)

D_set_font_file ==
    \E font_file \in {"fonts/Noto.ttf", "missing.ttf"} :
        set_font_file(font_file, None)

D_add_section ==
    \E b \in BuilderIds :
        Len(elems) < MaxDocElems /\ add_section(b, T1, 1, NoneT, FALSE)

D_add_paragraph ==
    \E b \in BuilderIds :
        Len(elems) < MaxDocElems /\ add_paragraph(b, T1, FALSE)

NextDoc ==
    \/ D_set_title \/ D_set_abstract \/ D_set_font_file
    \/ D_add_section \/ D_add_paragraph
    \/ Document_to_latex

SpecDoc == InitDoc /\ [][NextDoc]_vars

\* the first position of the output that holds begin or end of env
At(k, env) ==
    Min({i \in 1..Len(output) : output[i].k = k /\ output[i].a = env
                                 /\ output[i].s = "doc"})

Has(k, env) ==
    \E i \in 1..Len(output) :
        output[i].k = k /\ output[i].a = env /\ output[i].s = "doc"

\* the tokens the title step emitted, and where
TitlePos == {i \in 1..Len(output) : output[i].s = "title"}

TitleBlock == SelectSeq(output, LAMBDA t : t.s = "title")

BodyPos == {i \in 1..Len(output) : output[i].s \in {"abstract", "elem"}}

TitleTexts == [i \in 1..Len(TitleBlock) |->
                 <<TitleBlock[i].k, TitleBlock[i].a>> \o TitleBlock[i].o]

PreambleSteps ==
    {"class", "fontspec", "packages", "font", "geometry", "setspace", "custom"}

\* the top-level child whose subtree emitted the token at position i
TopChild(i) ==
    CHOOSE n \in 1..Len(document.content) :
        output[i].e \in Subtree(document.content[n])

Part(l, c) == [l |-> l, c |-> c]

PartAt(i) ==
    LET t == output[i]
    IN  CASE t.s \in PreambleSteps -> Part("preamble", 0)
          [] t.s = "title" -> Part("title", 0)
          [] t.s = "abstract" -> Part("abstract", 0)
          [] t.s = "elem" -> Part("child", TopChild(i))
          [] t.s = "doc" /\ t.k = "nl" ->
                IF i < At("begin", "document") THEN Part("preamble", 0)
                ELSE Part("break", i)
          [] t.s = "doc" /\ t.k = "begin" /\ t.a = "document" ->
                Part("document-begin", 0)
          [] t.s = "doc" /\ t.k = "end" /\ t.a = "document" ->
                Part("document-end", i)
          [] t.s = "doc" /\ t.k = "begin" /\ t.a = "CJK" -> Part("CJK-begin", i)
          [] t.s = "doc" /\ t.k = "end" /\ t.a = "CJK" -> Part("CJK-end", i)

\* consecutive tokens of one part are one part
RECURSIVE Parts(_)
Parts(i) ==
    IF i > Len(output) THEN <<>>
    ELSE IF i > 1 /\ PartAt(i) = PartAt(i - 1) THEN Parts(i + 1)
    ELSE <<PartAt(i).l>> \o Parts(i + 1)

Shape == Parts(1)

ExpectedShape(title) ==
    <<"preamble", "document-begin">>
    \o (IF document.font_file = None THEN <<"CJK-begin">> ELSE <<>>)
    \o (IF title THEN <<"title">> ELSE <<>>)
    \o (IF Truthy(document.abstract) THEN <<"abstract">> ELSE <<>>)
    \o Flatten([n \in 1..Len(document.content) |-> <<"child", "break">>])
    \o (IF document.font_file = None THEN <<"CJK-end">> ELSE <<>>)
    \o <<"document-end">>

PackageNames == {"CJKutf8", "inputenc", "xcolor"}

P_add_package ==
    \E package \in PackageNames, options \in {None, "[o]"} :
        Len(pkglog) < MaxPkgCalls /\ add_package(package, options)

P_add_command ==
    \E command \in {<<"c1">>, <<"c2">>} :
        /\ Len(preamble_manager.custom_commands) < MaxCommands
        /\ add_command(command)

P_set_margins == set_margins("2cm", None, None, None)

P_set_line_spacing == \E spacing \in {0, 2} : set_line_spacing(spacing)

P_set_font_file == set_font_file("fonts/Noto.ttf", None)

P_set_abstract == set_abstract(<<"B">>)

NextPreamble ==
    \/ P_add_package \/ P_add_command
    \/ P_set_margins \/ P_set_line_spacing \/ P_set_font_file
    \/ P_set_abstract
    \/ Document_to_latex

SpecPreamble == InitBuild /\ [][NextPreamble]_vars

\* every registration so far: the defaults of the constructor, then the
\* add_package calls
Registrations == PreambleManager.packages \o pkglog

Registered == {Registrations[i].package : i \in 1..Len(Registrations)}

Called == {pkglog[i].package : i \in 1..Len(pkglog)}

\* the names in the order of their first registration
RECURSIVE FirstOrder(_, _)
FirstOrder(regs, seen) ==
    IF regs = <<>> THEN <<>>
    ELSE IF Head(regs).package \in seen THEN FirstOrder(Tail(regs), seen)
    ELSE <<Head(regs).package>>
         \o FirstOrder(Tail(regs), seen \cup {Head(regs).package})

\* the options of the most recent registration of a name
LatestOptions(n) ==
    Registrations[Max({i \in 1..Len(Registrations) :
                          Registrations[i].package = n})].options

\* the preamble of the output, and the directives of its package loop
PreamblePos == {i \in 1..Len(output) : output[i].s \in PreambleSteps}

PreambleOut == SelectSeq(output, LAMBDA t : t.s \in PreambleSteps)

LoopOut == SelectSeq(output, LAMBDA t : t.s = "packages")

Loaded == {output[i].a : i \in {j \in 1..Len(output) :
                                   output[j].k = "usepackage"}}

Directive(t) == <<t.k, t.a>> \o (IF t.k = "custom" THEN t.o ELSE <<>>)

Superseded == {"CJKutf8", "inputenc", "fontenc"}

ExpectedPreamble ==
    LET font == document.font_file # None
        names == SelectSeq(FirstOrder(Registrations, {}),
                           LAMBDA n : ~(font /\ n \in Superseded))
    IN  <<<<"cmd", "\\documentclass">>>>
        \o (IF font THEN <<<<"usepackage", "fontspec">>,
                           <<"usepackage", "xeCJK">>>> ELSE <<>>)
        \o [i \in 1..Len(names) |-> <<"usepackage", names[i]>>]
        \o (IF font THEN <<<<"cmd", "\\setCJKmainfont">>>> ELSE <<>>)
        \o (IF DOMAIN document.margins # {}
            THEN <<<<"usepackage", "geometry">>>> ELSE <<>>)
        \o (IF document.line_spacing # <<>>
            THEN <<<<"usepackage", "setspace">>, <<"cmd", "\\setstretch">>>>
            ELSE <<>>)
        \o [i \in 1..Len(preamble_manager.custom_commands) |->
               <<"custom", "">> \o preamble_manager.custom_commands[i]]

(***************************************************************************)
(* C8: the preamble opens the output and is, in this order: the document   *)
(* class; fontspec and xeCJK when a font file is set; the accumulated      *)
(* packages in the order of their first registration; the main-font        *)
(* declaration when a font file is set; the geometry directive when a      *)
(* margin is set; setspace and the stretch when a line spacing is set; the *)
(* custom declarations verbatim in insertion order.                        *)
(***************************************************************************)
C8_PreambleOrder ==
    IsRendered =>
        /\ PreamblePos = 1..Len(PreambleOut)
        /\ [i \in 1..Len(PreambleOut) |-> Directive(PreambleOut[i])]
             = ExpectedPreamble

\* a render with a font file, a margin, a line spacing, two custom
\* declarations and a package registered after the defaults
C8_Witness ==
    /\ IsRendered
    /\ document.font_file # None
    /\ DOMAIN document.margins # {}
    /\ document.line_spacing # <<>>
    /\ Len(preamble_manager.custom_commands) = 2
    /\ preamble_manager.custom_commands[1] # preamble_manager.custom_commands[2]
    /\ "xcolor" \in Called

\* name n is held once in the map, with the options of its latest call
HeldOnce(n) ==
    /\ Cardinality({i \in 1..Len(preamble_manager.packages) :
                       preamble_manager.packages[i].package = n}) = 1
    /\ \A i \in 1..Len(preamble_manager.packages) :
          preamble_manager.packages[i].package = n =>
              preamble_manager.packages[i].options = LatestOptions(n)

LoopDirectives(n) == {i \in 1..Len(LoopOut) : LoopOut[i].a = n}

\* name n has one directive in the package loop, with its latest options
EmittedOnce(n) ==
    /\ Cardinality(LoopDirectives(n)) = 1
    /\ \A i \in LoopDirectives(n) :
          LoopOut[i].o = IF LatestOptions(n) = None THEN <<>>
                         ELSE <<LatestOptions(n)>>

(***************************************************************************)
(* C9 as claimed: after any sequence of add_package calls each name is     *)
(* held once in the package map and emitted in exactly one directive of    *)
(* the package loop, with the options of the most recent call for it.      *)
(***************************************************************************)
C9_LastWriteWins ==
    /\ \A n \in Called : HeldOnce(n)
    /\ IsRendered => \A n \in Called : EmittedOnce(n)

(***************************************************************************)
(* C9 as amended: each name is held once in the package map with the       *)
(* options of the most recent call; it is emitted in exactly one directive *)
(* of the package loop with those options, except that CJKutf8, inputenc   *)
(* and fontenc are emitted in no directive when a font file is set.        *)
(***************************************************************************)
C9_LastWriteWinsUnlessSuperseded ==
    /\ \A n \in Called : HeldOnce(n)
    /\ IsRendered =>
          \A n \in Called :
              IF document.font_file # None /\ n \in Superseded
              THEN LoopDirectives(n) = {}
              ELSE EmittedOnce(n)

\* a render after a package was registered with options and then again
\* with none, and a superseded package was registered with a font file set
C9_Witness ==
    /\ IsRendered
    /\ document.font_file # None
    /\ "CJKutf8" \in Called
    /\ \E i, j \in 1..Len(pkglog) :
          /\ i < j
          /\ pkglog[i].package = "xcolor" /\ pkglog[i].options # None
          /\ pkglog[j].package = "xcolor" /\ pkglog[j].options = None

CJKPos(k) ==
    {i \in 1..Len(output) : output[i].k = k /\ output[i].a = "CJK"}

(***************************************************************************)
(* C10: in a rendered document, when a font file is set fontspec and xeCJK *)
(* are loaded, none of CJKutf8, inputenc, fontenc is loaded and the body   *)
(* has no CJK environment; when none is set CJKutf8 is loaded and the body *)
(* lies within exactly one CJK environment.                                *)
(***************************************************************************)
C10_FontPathsExclusive ==
    IsRendered =>
        IF document.font_file # None
        THEN /\ {"fontspec", "xeCJK"} \subseteq Loaded
             /\ Loaded \cap Superseded = {}
             /\ CJKPos("begin") = {} /\ CJKPos("end") = {}
        ELSE /\ "CJKutf8" \in Loaded
             /\ Loaded \cap {"fontspec", "xeCJK"} = {}
             /\ Cardinality(CJKPos("begin")) = 1
             /\ Cardinality(CJKPos("end")) = 1
             /\ \A b \in CJKPos("begin"), e \in CJKPos("end") :
                   /\ At("begin", "document") < b /\ e < At("end", "document")
                   /\ \A i \in TitlePos \cup BodyPos : b < i /\ i < e

\* a render with a font file set after the caller registered CJKutf8 and
\* inputenc again, and an abstract in the body
C10_Witness ==
    /\ IsRendered
    /\ document.font_file # None
    /\ {"CJKutf8", "inputenc"} \subseteq Called
    /\ Truthy(document.abstract)

(***************************************************************************)
(* SpecMargins: set_margins called with any edges given or omitted, and    *)
(* the Document rendered at any time.                                      *)
(***************************************************************************)
MarginValues == {None, "1cm", "2cm"}

M_set_margins ==
    \E top \in MarginValues, bottom \in MarginValues,
       left \in MarginValues, right \in MarginValues :
        set_margins(top, bottom, left, right)

NextMargins == M_set_margins \/ Document_to_latex

SpecMargins == InitBuild /\ [][NextMargins]_vars

Edges == {"top", "bottom", "left", "right"}

\* the options of a geometry directive for the stored margins m
GeometryOptions(m) ==
    (IF "top" \in DOMAIN m THEN <<"top", m["top"]>> ELSE <<>>)
    \o (IF "bottom" \in DOMAIN m THEN <<"bottom", m["bottom"]>> ELSE <<>>)
    \o (IF "left" \in DOMAIN m THEN <<"left", m["left"]>> ELSE <<>>)
    \o (IF "right" \in DOMAIN m THEN <<"right", m["right"]>> ELSE <<>>)

\* the options of the geometry directives of rendered markup
GeometryDirectives(toks) ==
    LET g == SelectSeq(toks, LAMBDA t : t.k = "usepackage" /\ t.a = "geometry")
    IN  [i \in 1..Len(g) |-> g[i].o]

(***************************************************************************)
(* C11: a set_margins call stores every edge it supplies and leaves every  *)
(* edge it omits as it was, so the stored edges are those some call        *)
(* supplied, each with the value of the latest call that supplied it; a    *)
(* render has one geometry directive listing exactly the stored edges in   *)
(* the order top, bottom, left, right when an edge is stored, and none     *)
(* otherwise.                                                              *)
(***************************************************************************)
C11_GeometryFromMargins ==
    [][/\ last'.op = "set_margins" =>
             \A k \in Edges :
                 IF margin_args'[k] # None
                 THEN /\ k \in DOMAIN document'.margins
                      /\ document'.margins[k] = margin_args'[k]
                 ELSE /\ (k \in DOMAIN document'.margins)
                             <=> (k \in DOMAIN document.margins)
                      /\ k \in DOMAIN document.margins =>
                             document'.margins[k] = document.margins[k]
       /\ last'.op = "to_latex" =>
             GeometryDirectives(output') =
                 IF DOMAIN document.margins = {} THEN <<>>
                 ELSE <<GeometryOptions(document.margins)>>]_vars

\* a render after top and left were supplied by one call and left supplied
\* again by a later call that omitted top
C11_Witness ==
    /\ IsRendered
    /\ DOMAIN document.margins = {"top", "left"}
    /\ document.margins["top"] = "2cm" /\ document.margins["left"] = "1cm"
    /\ margin_args.top = None /\ margin_args.left = "1cm"

(***************************************************************************)
(* SpecConstruct: a Document constructed directly with a font file and a   *)
(* line spacing, or a DocumentBuilder on which the line spacing and the    *)
(* font file are set and paragraphs added; the Document rendered at any    *)
(* time.                                                                   *)
(***************************************************************************)
Spacings == {-1, 0, 1, 2}

FontFiles == {"fonts/Noto.ttf", "missing.ttf"}

InitConstruct ==
    \/ InitBuild
    \/ \E font_file \in {None} \cup FontFiles,
          line_spacing \in {<<>>} \cup {<<n>> : n \in Spacings} :
           /\ document = Document_init(<<"T">>, <<"A">>, NoneT, "min", <<>>,
                                       font_file, None, line_spacing)
           /\ preamble_manager = PreambleManager
           /\ elems = <<>>
           /\ builders = <<>>
           /\ openedOn = <<>>
           /\ pkglog = <<>>
           /\ margin_args = [top |-> None, bottom |-> None, left |-> None,
                             right |-> None]
           /\ output_dir = {}
           /\ resources = {}
           /\ font_result = None
           /\ compiler = LaTeXCompiler
           /\ steps = <<>>
           /\ last = Call("init", 0, 0, 0)
           /\ output = <<>>

K_set_line_spacing ==
    \E spacing \in Spacings : builders # <<>> /\ set_line_spacing(spacing)

K_set_font_file ==
    \E font_file \in FontFiles : builders # <<>> /\ set_font_file(font_file, None)

K_add_paragraph ==
    \E b \in BuilderIds :
        Len(elems) < MaxDocElems /\ add_paragraph(b, T1, FALSE)

NextConstruct ==
    \/ K_set_line_spacing \/ K_set_font_file \/ K_add_paragraph
    \/ Document_to_latex

SpecConstruct == InitConstruct /\ [][NextConstruct]_vars

\* the arguments of the stretch directives of the output
Stretches ==
    {output[i].o : i \in {j \in 1..Len(output) :
                             output[j].k = "cmd" /\ output[j].a = "\\setstretch"}}

(***************************************************************************)
(* C12 as claimed: the line spacing of the document is never 0 or less,    *)
(* whether it came from set_line_spacing or from the constructor, and      *)
(* every rendered stretch directive carries a value greater than 0.        *)
(***************************************************************************)
C12_LineSpacingPositive ==
    /\ document.line_spacing # <<>> => document.line_spacing[1] > 0
    /\ IsRendered =>
          \A o \in Stretches : \E n \in Spacings : n > 0 /\ o = <<ToString(n)>>

(***************************************************************************)
(* C13 as claimed: whenever the font file of the document is set, it is a  *)
(* file that existed when it was set, and a set_font_file call that raised *)
(* generated no markup.                                                    *)
(***************************************************************************)
C13_FontFileExists ==
    /\ document.font_file # None =>
          \E f \in Files : document.font_file \in {f, Absolute(f)}
    /\ last.op = "set_font_file" /\ last.ret = -1 => output = <<>>

(***************************************************************************)
(* SpecTable: tables whose rows match or do not match the headers added    *)
(* through the builders or constructed and added directly, and the         *)
(* Document rendered at any time.                                          *)
(***************************************************************************)
TableRows ==
    {<<<<"a", "b">>>>, <<<<"a">>>>, <<<<"a", "b">>, <<"a", "b", "c">>>>}

T_add_section ==
    \E b \in BuilderIds :
        Len(elems) < MaxDocElems /\ add_section(b, T1, 1, NoneT, FALSE)

T_add_table ==
    \E b \in BuilderIds, rows \in TableRows :
        Len(elems) < MaxDocElems /\ add_table(b, <<"h1", "h2">>, rows)

\* table = Table(headers, rows) and container.add(table)
T_new_table ==
    \E rows \in TableRows :
        /\ Len(elems) < MaxDocElems /\ Unattached = {}
        /\ New(Table(<<"h1", "h2">>, rows, NoneT, NoneT))

T_add ==
    \E e \in Unattached, c \in 0..Len(elems) :
        /\ IF c = 0 THEN TRUE ELSE c # e /\ elems[c].type = "Section"
        /\ add(c, e)

NextTable ==
    \/ T_add_section \/ T_add_table \/ T_new_table \/ T_add
    \/ Document_to_latex

SpecTable == InitBuild /\ [][NextTable]_vars

Mismatched(el) ==
    \E i \in 1..Len(el.rows) : Len(el.rows[i]) # Len(el.headers)

(***************************************************************************)
(* C14 as claimed: a table with a row whose width differs from the number  *)
(* of headers is rejected by the call that supplies it, so no such table   *)
(* is ever constructed or attached, and rendering never is the operation   *)
(* that reports the mismatch.                                              *)
(***************************************************************************)
C14_TableRejectedAtCall ==
    /\ \A id \in Ids : elems[id].type = "Table" => ~Mismatched(elems[id])
    /\ last.op = "add_table" /\ Mismatched(elems[last.elem]) => last.ret = -1
    /\ last.op = "to_latex" =>
          \A i \in 1..Len(output) :
              ~(output[i].k = "raise" /\ output[i].a = "ValueError")

(***************************************************************************)
(* SpecSection: Sections of any level, numbered or not, with or without a  *)
(* label, and Paragraphs, constructed and added to the Document or to a    *)
(* Section; the Document rendered at any time.                             *)
(***************************************************************************)
Levels == 0..6

Sec_new_section ==
    \E level \in Levels, label \in {NoneT, <<"l">>}, numbered \in BOOLEAN :
        /\ Len(elems) < MaxSecElems /\ Unattached = {}
        /\ New(Section(T1, level, label, numbered))

Sec_new_paragraph ==
    Len(elems) < MaxSecElems /\ Unattached = {} /\ New(Paragraph(T1, FALSE))

Sec_add ==
    \E e \in Unattached, c \in 0..Len(elems) :
        /\ IF c = 0 THEN TRUE ELSE c # e /\ elems[c].type = "Section"
        /\ add(c, e)

NextSection ==
    \/ Sec_new_section \/ Sec_new_paragraph \/ Sec_add \/ Document_to_latex

SpecSection == InitDocument /\ [][NextSection]_vars

\* the command a Section of this level and numbering is to render as
ExpectedCommand(level, numbered) ==
    LET i == IF level \in 1..5 THEN level ELSE 1
    IN  IF numbered
        THEN <<"\\section", "\\subsection", "\\subsubsection", "\\paragraph",
               "\\subparagraph">>[i]
        ELSE <<"\\section*", "\\subsection*", "\\subsubsection*",
               "\\paragraph*", "\\subparagraph*">>[i]

\* the elements the render went through
Rendered == UNION {Subtree(document.content[n]) : n \in 1..Len(document.content)}

(***************************************************************************)
(* C15: a render of Sections never raises; every rendered Section opens    *)
(* with the command of its level (section, subsection, subsubsection,      *)
(* paragraph, subparagraph for 1..5, section for any other level), starred *)
(* exactly when unnumbered, carrying the title; the label line follows the *)
(* command and precedes the children when a label is set, and is absent    *)
(* when none is.                                                           *)
(***************************************************************************)
C15_SectionCommand ==
    last.op = "to_latex" =>
        /\ ~Raises(output)
        /\ \A id \in Rendered :
              elems[id].type = "Section" =>
                  LET first == Min(Pos({id}))
                      labels == {i \in Pos({id}) : output[i].a = "\\label"}
                  IN  /\ output[first].k = "cmd"
                      /\ output[first].a =
                            ExpectedCommand(elems[id].level, elems[id].numbered)
                      /\ output[first].o = elems[id].title
                      /\ IF Truthy(elems[id].label)
                         THEN /\ labels = {first + 1}
                              /\ output[first + 1].o = elems[id].label
                              /\ \A c \in Subtree(id) \ {id} :
                                    \A i \in Pos({c}) : i > first + 1
                         ELSE labels = {}

\* a render of an unnumbered Section of level 6 with a label and a child,
\* and of a numbered Section of level 4
C15_Witness ==
    /\ IsRendered
    /\ \E id \in Rendered :
          /\ elems[id].type = "Section" /\ elems[id].level = 6
          /\ ~elems[id].numbered /\ Truthy(elems[id].label)
          /\ elems[id].children # <<>>
    /\ \E id \in Rendered :
          /\ elems[id].type = "Section" /\ elems[id].level = 4
          /\ elems[id].numbered

(***************************************************************************)
(* SpecNumbering: sections added through the DocumentBuilder with the      *)
(* title only, with numbered=False and with numbered=True (the title of    *)
(* the section tells which call added it), paragraphs added to them, and   *)
(* the Document rendered at any time.                                      *)
(***************************************************************************)
N_add_section_default ==
    \E b \in BuilderIds :
        /\ More
        /\ add_section(b, <<"default">>, add_section_defaults.level,
                       add_section_defaults.label, add_section_defaults.numbered)

N_add_section_unnumbered ==
    \E b \in BuilderIds, level \in 1..2 :
        More /\ add_section(b, <<"unnumbered">>, level, NoneT, FALSE)

N_add_section_numbered ==
    \E b \in BuilderIds, level \in 1..2 :
        More /\ add_section(b, <<"numbered">>, level, NoneT, TRUE)

N_add_paragraph ==
    \E b \in BuilderIds : More /\ add_paragraph(b, T1, FALSE)

NextNumbering ==
    \/ N_add_section_default \/ N_add_section_unnumbered
    \/ N_add_section_numbered \/ N_add_paragraph
    \/ Document_to_latex

SpecNumbering == InitBuild /\ [][NextNumbering]_vars

\* the name of the command a rendered Section opens with
CommandOf(id) == output[Min(Pos({id}))].a

SectionsAddedBy(call) ==
    {id \in Ids : elems[id].type = "Section" /\ elems[id].title = <<call>>}

(***************************************************************************)
(* C16: a section added with add_section and no numbered argument renders  *)
(* with the starred command, as one added with numbered=False does; one    *)
(* added with numbered=True renders with the unstarred command.            *)
(***************************************************************************)
C16_DefaultUnnumbered ==
    IsRendered =>
        /\ \A id \in SectionsAddedBy("default") :
              CommandOf(id) = ExpectedCommand(elems[id].level, FALSE)
        /\ \A id \in SectionsAddedBy("unnumbered") :
              CommandOf(id) = ExpectedCommand(elems[id].level, FALSE)
        /\ \A id \in SectionsAddedBy("numbered") :
              CommandOf(id) = ExpectedCommand(elems[id].level, TRUE)

\* a render of three sections, one added by each kind of call
C16_Witness ==
    /\ IsRendered
    /\ SectionsAddedBy("default") # {}
    /\ SectionsAddedBy("unnumbered") # {}
    /\ SectionsAddedBy("numbered") # {}

(***************************************************************************)
(* SpecExercise: Exercises of one to three columns, with or without items, *)
(* added through the builders or constructed and added with add to the     *)
(* Document or a Section; the Document rendered at any time.               *)
(***************************************************************************)
ExerciseItems == {<<>>, <<T1, T1>>}

E_add_section ==
    \E b \in BuilderIds :
        Len(elems) < MaxDocElems /\ add_section(b, T1, 1, NoneT, FALSE)

E_add_exercise ==
    \E b \in BuilderIds, items \in ExerciseItems, columns \in 1..3 :
        Len(elems) < MaxDocElems /\ add_exercise(b, T1, T1, items, columns)

\* exercise = Exercise(title, content, items, columns)
E_new_exercise ==
    \E items \in ExerciseItems, columns \in 1..3 :
        /\ Len(elems) < MaxDocElems /\ Unattached = {}
        /\ New(Exercise(T1, T1, items, columns))

\* document.add(exercise) or section.add(exercise)
E_add ==
    \E e \in Unattached, c \in 0..Len(elems) :
        /\ IF c = 0 THEN TRUE ELSE c # e /\ elems[c].type = "Section"
        /\ add(c, e)

NextExercise ==
    \/ E_add_section \/ E_add_exercise \/ E_new_exercise \/ E_add
    \/ Document_to_latex

SpecExercise == InitBuild /\ [][NextExercise]_vars

\* the positions of the output where element id begins or ends env
EnvPos(id, k, env) ==
    {i \in Pos({id}) : output[i].k = k /\ output[i].a = env}

(***************************************************************************)
(* C17 as claimed: in a rendered document an Exercise of one column has no *)
(* multicols block; an Exercise of more columns has its item list inside   *)
(* one multicols block of that count, and the multicol package is loaded   *)
(* in the preamble, however the Exercise came into the tree.               *)
(***************************************************************************)
C17_MulticolRegistered ==
    IsRendered =>
        \A id \in Rendered :
            elems[id].type = "Exercise" =>
                IF elems[id].columns = 1
                THEN EnvPos(id, "begin", "multicols") = {}
                     /\ EnvPos(id, "end", "multicols") = {}
                ELSE /\ "multicol" \in Loaded
                     /\ elems[id].items # <<>> =>
                           \E b \in EnvPos(id, "begin", "multicols"),
                              e \in EnvPos(id, "end", "multicols") :
                               /\ EnvPos(id, "begin", "multicols") = {b}
                               /\ EnvPos(id, "end", "multicols") = {e}
                               /\ output[b].o = <<ToString(elems[id].columns)>>
                               /\ \A i \in EnvPos(id, "begin", "enumerate")
                                     \cup EnvPos(id, "end", "enumerate") :
                                      b < i /\ i < e
                               /\ EnvPos(id, "begin", "enumerate") # {}

(***************************************************************************)
(* SpecDrawing: DrawingSpaces constructed with no margin content, with a   *)
(* string or with an element as margin content, Paragraphs and Images      *)
(* constructed, elements added to the Document or to a DrawingSpace, and   *)
(* the Document rendered at any time.  An element is held once: as a child *)
(* or as the margin content of one DrawingSpace.                           *)
(***************************************************************************)
MarginElems ==
    {elems[d].margin_content[2] :
        d \in {x \in Ids : /\ elems[x].type = "DrawingSpace"
                           /\ elems[x].margin_content # <<>>
                           /\ elems[x].margin_content[1] = "elem"}}

Free == Unattached \ MarginElems

Dr_new_leaf ==
    \E el \in {Paragraph(T1, FALSE), Image("a.png", NoneT, NoneT, TRUE)} :
        Len(elems) < MaxDrawElems /\ Free = {} /\ New(el)

Dr_new_drawing_space ==
    \E margin_content \in {<<>>, <<"str", <<>>>>, <<"str", T1>>}
                          \cup {<<"elem", m>> : m \in Free} :
        /\ Len(elems) < MaxDrawElems
        /\ Free = {} \/ margin_content \in {<<"elem", m>> : m \in Free}
        /\ New(DrawingSpace("0.7\\textwidth", "5cm", margin_content))

Dr_add ==
    \E e \in Free, c \in 0..Len(elems) :
        /\ IF c = 0 THEN TRUE ELSE c # e /\ elems[c].type = "DrawingSpace"
        /\ add(c, e)

NextDrawing ==
    \/ Dr_new_leaf \/ Dr_new_drawing_space \/ Dr_add \/ Document_to_latex

SpecDrawing == InitDocument /\ [][NextDrawing]_vars

\* what lies strictly between two positions of the output
Between(b, e) == {i \in 1..Len(output) : b < i /\ i < e}

\* the children of id are rendered in insertion order within positions S,
\* each followed by a line break of id, and nothing else is
FirstColumn(id, S) ==
    LET ch == elems[id].children
    IN  /\ S = UNION {Pos(Subtree(ch[n])) : n \in 1..Len(ch)}
                 \cup {i \in Pos({id}) : output[i].k = "nl"}
        /\ \A n \in 1..Len(ch) :
              /\ Pos(Subtree(ch[n])) # {}
              /\ output[Max(Pos(Subtree(ch[n]))) + 1].k = "nl"
              /\ output[Max(Pos(Subtree(ch[n]))) + 1].e = id
        /\ \A n \in 1..(Len(ch) - 1) :
              Max(Pos(Subtree(ch[n]))) < Min(Pos(Subtree(ch[n + 1])))

\* positions S hold the placeholder, or the margin content and nothing else
SecondColumn(id, S) ==
    LET mc == elems[id].margin_content
    IN  IF mc = <<>> THEN \E i \in Pos({id}) : S = {i} /\ output[i].a = "\\null"
        ELSE IF mc[1] = "str"
        THEN \E i \in Pos({id}) :
                /\ S = {i}
                /\ IF mc[2] = <<>> THEN output[i].a = "\\null"
                   ELSE output[i].k = "text" /\ output[i].o = mc[2]
        ELSE S = Pos(Subtree(mc[2])) /\ S # {}

(***************************************************************************)
(* C18: a render of DrawingSpaces never raises; every rendered             *)
(* DrawingSpace has exactly two minipage blocks, one after the other: the  *)
(* first holds the renderings of its children in insertion order and       *)
(* nothing of the margin content, the second holds only the placeholder    *)
(* when there is no margin content and only the rendering of the margin    *)
(* content when there is.                                                  *)
(***************************************************************************)
C18_TwoColumns ==
    last.op = "to_latex" =>
        /\ ~Raises(output)
        /\ \A id \in Rendered :
              elems[id].type = "DrawingSpace" =>
                  LET B == EnvPos(id, "begin", "minipage")
                      E == EnvPos(id, "end", "minipage")
                  IN  /\ Cardinality(B) = 2 /\ Cardinality(E) = 2
                      /\ Min(B) < Min(E) /\ Min(E) < Max(B) /\ Max(B) < Max(E)
                      /\ FirstColumn(id, Between(Min(B), Min(E)))
                      /\ SecondColumn(id, Between(Max(B), Max(E)))

\* a render of a DrawingSpace with a child and an element as margin
\* content, and of one with no margin content
C18_Witness ==
    /\ IsRendered
    /\ \E id \in Rendered :
          /\ elems[id].type = "DrawingSpace"
          /\ elems[id].children # <<>>
          /\ elems[id].margin_content # <<>>
          /\ elems[id].margin_content[1] = "elem"
    /\ \E id \in Rendered :
          /\ elems[id].type = "DrawingSpace"
          /\ elems[id].margin_content = <<>>

(***************************************************************************)
(* SpecMarginCall: drawing spaces opened through the builders.  A TikZ     *)
(* element is constructed and the next add_drawing_space call is given it  *)
(* as margin_content; with no such element the call is made with          *)
(* right_margin alone.  Sections and paragraphs are added, drawing spaces  *)
(* closed and the Document rendered at any time.                           *)
(***************************************************************************)
G_add_section ==
    \E b \in BuilderIds :
        Len(elems) < MaxDrawElems /\ add_section(b, T1, 1, NoneT, FALSE)

G_add_paragraph ==
    \E b \in BuilderIds :
        Len(elems) < MaxDrawElems /\ add_paragraph(b, T1, FALSE)

\* margin_tikz = TikZ(code, inline=True)
G_new_tikz ==
    /\ Len(elems) < MaxDrawElems /\ Free = {}
    /\ New(TikZ(T1, NoneT, NoneT, TRUE))

\* builder.add_drawing_space(right_margin="5cm", margin_content=margin_tikz)
G_add_drawing_space ==
    \E b \in BuilderIds :
        /\ Len(elems) < MaxDrawElems
        /\ IF Free = {}
           THEN add_drawing_space_keywords(b, [right_margin |-> "5cm"])
           ELSE \E m \in Free :
                   add_drawing_space_keywords(b,
                       [right_margin |-> "5cm", margin_content |-> m])

G_end_drawing_space == \E b \in BuilderIds : end_drawing_space(b)

NextMarginCall ==
    \/ G_add_section \/ G_add_paragraph \/ G_new_tikz \/ G_add_drawing_space
    \/ G_end_drawing_space \/ Document_to_latex

SpecMarginCall == InitBuild /\ [][NextMarginCall]_vars

(***************************************************************************)
(* C19: an add_drawing_space call on a DocumentBuilder or a SectionBuilder *)
(* that is given a margin-content element returns a builder and leaves the *)
(* element held as the margin content of a drawing space, and a render     *)
(* shows every such element in the second column of its drawing space.     *)
(***************************************************************************)
C19_BuilderMarginContent ==
    /\ last.op = "add_drawing_space" => last.ret # -1 /\ Free = {}
    /\ IsRendered =>
          \A id \in Rendered :
              elems[id].type = "DrawingSpace" =>
                  SecondColumn(id, Between(Max(EnvPos(id, "begin", "minipage")),
                                           Max(EnvPos(id, "end", "minipage"))))

(***************************************************************************)
(* Resource processing.  The image files that exist are ImageFiles;        *)
(* output_dir is the set of files copied below the output directory.  The  *)
(* pass threads a record st through the tree: es the elements, dir the     *)
(* output directory, result the mapping being built as a set of            *)
(* <<source, destination>> pairs, raised whether FileNotFoundError (or     *)
(* RecursionError, at depth 0) was raised.                                 *)
(***************************************************************************)
ImageFiles == {"a.png", "pics/b.png"}

ImagePaths == ImageFiles \cup {"missing.png"}

\* f"images/{self.image_path.name}"
ProcessedPath(image_path) ==
    CASE image_path = "a.png" -> "images/a.png"
      [] image_path = "pics/b.png" -> "images/b.png"
      [] image_path = "missing.png" -> "images/missing.png"

\* result.update({key: value})
result_update(result, key, value) ==
    {p \in result : p[1] # key} \cup {<<key, value>>}

Image_process_resources(id, st) ==
    LET image_path == st.es[id].image_path
    IN  IF image_path \notin ImageFiles THEN [st EXCEPT !.raised = TRUE]
        ELSE [st EXCEPT !.es[id].processed_path = ProcessedPath(image_path),
                        !.dir = @ \cup {ProcessedPath(image_path)},
                        !.result = result_update(@, image_path,
                                               ProcessedPath(image_path))]

RECURSIVE process_resources(_, _, _)

\* for child in ids: result.update(child.process_resources(output_dir))
RECURSIVE process_each(_, _, _)
process_each(ids, st, d) ==
    IF ids = <<>> \/ st.raised THEN st
    ELSE process_each(Tail(ids), process_resources(Head(ids), st, d), d)

LaTeXElement_process_resources(id, st, d) ==
    process_each(st.es[id].children, st, d)

DrawingSpace_process_resources(id, st, d) ==
    LET st1 == LaTeXElement_process_resources(id, st, d)
        mc == st.es[id].margin_content
    IN  IF st1.raised THEN st1
        ELSE IF mc # <<>> /\ mc[1] = "elem"
        THEN process_resources(mc[2], st1, d)
        ELSE st1

process_resources(id, st, d) ==
    IF d = 0 THEN [st EXCEPT !.raised = TRUE]
    ELSE LET t == st.es[id].type
         IN  CASE t = "Image" -> Image_process_resources(id, st)
               [] t = "DrawingSpace" ->
                      DrawingSpace_process_resources(id, st, d - 1)
               [] OTHER -> LaTeXElement_process_resources(id, st, d - 1)

\* document.process_images(output_dir)
Document_process_images ==
    LET st == process_each(document.content,
                           [es |-> elems, dir |-> output_dir, result |-> {},
                            raised |-> FALSE],
                           Len(elems) + 1)
    IN  /\ elems' = st.es
        /\ output_dir' = st.dir
        /\ resources' = IF st.raised THEN {} ELSE st.result
        /\ last' = Call("process_images", 0, IF st.raised THEN -1 ELSE 1, 0)
        /\ output' = <<>>
        /\ UNCHANGED <<document, preamble_manager, builders, openedOn, pkglog,
                       margin_args, font_result, compiler, steps>>

(***************************************************************************)
(* SpecResources: Images of existing and of missing files, Sections and    *)
(* DrawingSpaces (with or without an element as margin content)            *)
(* constructed; elements added to the Document or to any element outside   *)
(* their own subtree; the resource pass run at any time.                   *)
(***************************************************************************)
R_new_image ==
    \E image_path \in ImagePaths :
        /\ Len(elems) < MaxResElems /\ Free = {}
        /\ New(Image(image_path, NoneT, NoneT, FALSE))

R_new_section ==
    /\ Len(elems) < MaxResElems /\ Free = {}
    /\ New(Section(T1, 1, NoneT, FALSE))

R_new_drawing_space ==
    \E margin_content \in {<<>>} \cup {<<"elem", m>> : m \in Free} :
        /\ Len(elems) < MaxResElems
        /\ Free = {} \/ margin_content # <<>>
        /\ New(DrawingSpace("0.7\\textwidth", "5cm", margin_content))

R_add ==
    \E e \in Free, c \in 0..Len(elems) :
        /\ IF c = 0 THEN TRUE ELSE c \notin Subtree(e)
        /\ add(c, e)

NextResources ==
    \/ R_new_image \/ R_new_section \/ R_new_drawing_space \/ R_add
    \/ Document_process_images

SpecResources == InitDocument /\ [][NextResources]_vars

(***************************************************************************)
(* C20: when the resource pass of the Document returns without error,      *)
(* every Image below the Document, at any depth and under any element      *)
(* (margin content included), has its destination path cached, its copy in *)
(* the output directory and its entry in the returned mapping.             *)
(***************************************************************************)
C20_EveryImageProcessed ==
    (last.op = "process_images" /\ last.ret # -1) =>
        \A id \in Rendered :
            elems[id].type = "Image" =>
                /\ elems[id].processed_path = ProcessedPath(elems[id].image_path)
                /\ ProcessedPath(elems[id].image_path) \in output_dir
                /\ <<elems[id].image_path, ProcessedPath(elems[id].image_path)>>
                       \in resources

(***************************************************************************)
(* Font processing.  The font files that exist are Files (none of them a   *)
(* bold variant, so no bold font is copied); a file copied below the       *)
(* output directory exists at its absolute path.                           *)
(***************************************************************************)
\* Path(font_file).name
FontName(path) ==
    CASE path \in {"fonts/Noto.ttf", "/cwd/fonts/Noto.ttf",
                   "/out/fonts/Noto.ttf"} -> "Noto.ttf"
      [] path \in {"missing.ttf", "/cwd/missing.ttf"} -> "missing.ttf"

\* f"fonts/{font_path.name}"
FontsPath(name) ==
    CASE name = "Noto.ttf" -> "fonts/Noto.ttf"
      [] name = "missing.ttf" -> "fonts/missing.ttf"

\* str((output_dir / relative).absolute())
OutputAbsolute(relative) ==
    CASE relative = "fonts/Noto.ttf" -> "/out/fonts/Noto.ttf"
      [] relative = "fonts/missing.ttf" -> "/out/fonts/missing.ttf"
      [] relative = "images/a.png" -> "/out/images/a.png"
      [] relative = "images/b.png" -> "/out/images/b.png"
      [] relative = "T.tex" -> "/out/T.tex"
      [] relative = "T.pdf" -> "/out/T.pdf"
      [] relative = "document.tex" -> "/out/document.tex"
      [] relative = "document.pdf" -> "/out/document.pdf"

\* Path(path).exists(), with dir the files of the output directory
PathExists(path, dir) ==
    \/ \E f \in Files : path \in {f, Absolute(f)}
    \/ \E r \in dir : path = OutputAbsolute(r)

\* doc.process_fonts(output_dir) with dir the files of the output directory;
\* shutil.copy2 raises SameFileError when the source is the destination
process_fonts(doc, dir) ==
    LET font_file == doc.font_file
        dest_path == FontsPath(FontName(font_file))
    IN  IF ~TruthyS(font_file)
        THEN [document |-> doc, dir |-> dir, result |-> None, raised |-> FALSE]
        ELSE IF ~PathExists(font_file, dir) \/ font_file = OutputAbsolute(dest_path)
        THEN [document |-> doc, dir |-> dir, result |-> None, raised |-> TRUE]
        ELSE [document |-> [doc EXCEPT !.font_file = OutputAbsolute(dest_path)],
              dir |-> dir \cup {dest_path}, result |-> dest_path,
              raised |-> FALSE]

\* document.process_fonts(output_dir)
Document_process_fonts ==
    LET st == process_fonts(document, output_dir)
    IN  /\ document' = st.document
        /\ output_dir' = st.dir
        /\ font_result' = st.result
        /\ last' = Call("process_fonts", 0, IF st.raised THEN -1 ELSE 1, 0)
        /\ output' = <<>>
        /\ UNCHANGED <<preamble_manager, elems, builders, openedOn, pkglog,
                       margin_args, resources, compiler, steps>>

(***************************************************************************)
(* SpecTwice: a Document constructed with or without a font file; Images   *)
(* constructed and added until the first resource processing; then image   *)
(* processing and font processing run any number of times, in any order.   *)
(***************************************************************************)
InitTwice ==
    \E font_file \in {None} \cup FontFiles :
        /\ document = Document_init(<<"T">>, <<"A">>, NoneT, "min", <<>>,
                                    font_file, None, <<>>)
        /\ preamble_manager = PreambleManager
        /\ elems = <<>>
        /\ builders = <<>>
        /\ openedOn = <<>>
        /\ pkglog = <<>>
        /\ margin_args = [top |-> None, bottom |-> None, left |-> None,
                          right |-> None]
        /\ output_dir = {}
        /\ resources = {}
        /\ font_result = None
        /\ compiler = LaTeXCompiler
        /\ steps = <<>>
        /\ last = Call("init", 0, 0, 0)
        /\ output = <<>>

Unprocessed == last.op \notin {"process_images", "process_fonts"}

W_new_image ==
    \E image_path \in ImagePaths :
        /\ Unprocessed /\ Len(elems) < MaxResElems /\ Free = {}
        /\ New(Image(image_path, NoneT, NoneT, FALSE))

W_new_section ==
    /\ Unprocessed /\ Len(elems) < MaxResElems /\ Free = {}
    /\ New(Section(T1, 1, NoneT, FALSE))

W_add ==
    \E e \in Free, c \in 0..Len(elems) :
        /\ Unprocessed
        /\ IF c = 0 THEN TRUE ELSE c \notin Subtree(e)
        /\ add(c, e)

NextTwice ==
    \/ W_new_image \/ W_new_section \/ W_add
    \/ Document_process_images \/ Document_process_fonts

SpecTwice == InitTwice /\ [][NextTwice]_vars

(***************************************************************************)
(* C21: once image processing has returned, image processing of the same   *)
(* Document returns again, with the same cached destination path of every  *)
(* Image and the same mapping; once font processing has returned a path,   *)
(* font processing of the same Document returns again, and returns the     *)
(* same path.                                                              *)
(***************************************************************************)
C21_SecondRunSame ==
    [][/\ (resources # {} /\ last'.op = "process_images") =>
              /\ last'.ret # -1
              /\ resources' = resources
              /\ \A id \in {x \in Ids : elems[x].type = "Image"} :
                    elems'[id].processed_path = elems[id].processed_path
       /\ (font_result # None /\ last'.op = "process_fonts") =>
              /\ last'.ret # -1
              /\ font_result' = font_result]_vars

(***************************************************************************)
(* PDFGenerator.generate (core/generator.py) with the configuration        *)
(* defaults: the temporary directory is the output directory, cleanup      *)
(* removes the .tex file.  installed is the set of LaTeX engines found on  *)
(* the machine; outcome is what running the engine on the file does:       *)
(* "pdf" (a PDF is produced), "no_pdf" or "timeout".  A run is the record  *)
(* of what one call did: the elements, the output directory and the        *)
(* Document it left, the steps it took, the engine it left in the          *)
(* compiler and whether it raised.                                         *)
(***************************************************************************)
Engines == {"pdflatex", "xelatex", "lualatex"}

Outcomes == {"pdf", "no_pdf", "timeout"}

Step(op, ok, engine) == [op |-> op, ok |-> ok, engine |-> engine]

\* f"{document.title.replace(' ', '_')}.pdf", or "document.pdf"
OutputName(title) == IF title = <<"T">> THEN "T.pdf" ELSE "document.pdf"

\* f"{Path(output_name).stem}.tex"
TexName(output_name) ==
    IF output_name = "T.pdf" THEN "T.tex" ELSE "document.tex"

\* an exception of the resource processing passes through generate
process_stage_swallowing(doc, es, dir) ==
    LET im == process_each(doc.content,
                           [es |-> es, dir |-> dir, result |-> {},
                            raised |-> FALSE], Len(es) + 1)
        fo == process_fonts(doc, im.dir)
    IN  [es |-> im.es, dir |-> fo.dir, document |-> fo.document,
         steps |-> <<Step("process_images", ~im.raised, ""),
                     Step("process_fonts", ~fo.raised, "")>>,
         raised |-> FALSE]

\* document.process_images(output_dir); document.process_fonts(output_dir)
process_stage(doc, es, dir) ==
    LET im == process_each(doc.content,
                           [es |-> es, dir |-> dir, result |-> {},
                            raised |-> FALSE], Len(es) + 1)
        fo == process_fonts(doc, im.dir)
    IN  IF im.raised
        THEN [es |-> im.es, dir |-> im.dir, document |-> doc,
              steps |-> <<Step("process_images", FALSE, "")>>,
              raised |-> TRUE]
        ELSE [es |-> im.es, dir |-> fo.dir, document |-> fo.document,
              steps |-> <<Step("process_images", TRUE, ""),
                          Step("process_fonts", ~fo.raised, "")>>,
              raised |-> fo.raised]

\* the engine chosen for a document with a font file
preferred_engine(doc, engine, installed) ==
    IF ~TruthyS(doc.font_file) THEN engine
    ELSE IF "xelatex" \in installed THEN "xelatex"
    ELSE IF "lualatex" \in installed THEN "lualatex"
    ELSE engine

\* self.compiler.compile(tex_file, output_dir) to the end of generate:
\* a missing engine, a timeout and a missing PDF raise out of compile
compile_stage(run, original_engine, installed, outcome) ==
    LET engine == preferred_engine(run.document, original_engine, installed)
        pdf == OutputName(run.document.title)
        ok == engine \in installed /\ outcome = "pdf"
    IN  [run EXCEPT
            !.steps = @ \o <<Step("compile", ok, engine)>>,
            !.engine = IF ok THEN original_engine ELSE engine,
            !.dir = IF ok THEN (@ \cup {pdf}) \ {TexName(pdf)} ELSE @,
            !.raised = ~ok]

generate(doc, pm, es, dir, engine, installed, outcome) ==
    LET pr == process_stage(doc, es, dir)
        run == [es |-> pr.es, dir |-> pr.dir, document |-> pr.document,
                steps |-> pr.steps, engine |-> engine, raised |-> pr.raised]
        latex_content == render_document(pr.document, pm, pr.es)
        tex == TexName(OutputName(pr.document.title))
    IN  IF pr.raised THEN run
        ELSE IF Raises(latex_content)
        THEN [run EXCEPT !.steps = @ \o <<Step("to_latex", FALSE, "")>>,
                         !.raised = TRUE]
        ELSE compile_stage(
                 [run EXCEPT !.steps = @ \o <<Step("to_latex", TRUE, ""),
                                              Step("write", TRUE, "")>>,
                             !.dir = @ \cup {tex}],
                 engine, installed, outcome)

\* generator.generate(document)
PDFGenerator_generate(installed, outcome) ==
    LET run == generate(document, preamble_manager, elems, output_dir,
                        compiler.engine, installed, outcome)
    IN  /\ document' = run.document
        /\ elems' = run.es
        /\ output_dir' = run.dir
        /\ compiler' = [compiler EXCEPT !.engine = run.engine]
        /\ steps' = run.steps
        /\ last' = Call("generate", 0, IF run.raised THEN -1 ELSE 1, 0)
        /\ output' = <<>>
        /\ UNCHANGED <<preamble_manager, builders, openedOn, pkglog,
                       margin_args, resources, font_result>>

(***************************************************************************)
(* SpecGenerate: a Document constructed with or without a font file,       *)
(* Images of existing and of missing files and Sections constructed and    *)
(* added to the Document or to a Section, and generate called at any time, *)
(* on any machine and with any outcome of the engine.                      *)
(***************************************************************************)
Gn_new_image ==
    \E image_path \in ImagePaths :
        /\ Len(elems) < MaxGenElems /\ Free = {}
        /\ New(Image(image_path, NoneT, NoneT, FALSE))

Gn_new_section ==
    /\ Len(elems) < MaxGenElems /\ Free = {}
    /\ New(Section(T1, 1, NoneT, FALSE))

Gn_add ==
    \E e \in Free, c \in 0..Len(elems) :
        /\ IF c = 0 THEN TRUE
           ELSE c \notin Subtree(e) /\ elems[c].type = "Section"
        /\ add(c, e)

Gn_generate ==
    \E installed \in SUBSET Engines, outcome \in Outcomes :
        PDFGenerator_generate(installed, outcome)

NextGenerate == Gn_new_image \/ Gn_new_section \/ Gn_add \/ Gn_generate

SpecGenerate == InitTwice /\ [][NextGenerate]_vars

Pipeline == <<"process_images", "process_fonts", "to_latex", "write", "compile">>

\* an Image below the Document, or the font file, has no source file
MissingSource ==
    \/ \E id \in Rendered :
          elems[id].type = "Image" /\ elems[id].image_path \notin ImageFiles
    \/ /\ TruthyS(document.font_file)
       /\ ~PathExists(document.font_file, output_dir)

(***************************************************************************)
(* C22: generate processes the images, then the font, and only then        *)
(* serializes, writes the .tex file and compiles; a step that fails is the *)
(* last step of the call and the call raises; and when an image or the     *)
(* font file has no source, the call raises without having serialized,     *)
(* written the .tex file or invoked the compiler.                          *)
(***************************************************************************)
C22_ProcessingFirstAndAborts ==
    last.op = "generate" =>
        /\ Len(steps) <= Len(Pipeline)
        /\ \A i \in 1..Len(steps) :
              /\ steps[i].op = Pipeline[i]
              /\ ~steps[i].ok => i = Len(steps) /\ last.ret = -1
        /\ MissingSource =>
              /\ last.ret = -1
              /\ \A i \in 1..Len(steps) :
                    steps[i].op \in {"process_images", "process_fonts"}

\* a generate that copied an image and then failed on a missing font file
C22_Witness ==
    /\ last.op = "generate"
    /\ MissingSource
    /\ Len(steps) = 2
    /\ \E id \in Rendered : elems[id].type = "Image"
    /\ output_dir # {}

(***************************************************************************)
(* C30: a generate call, whether it returns or raises, leaves              *)
(* compiler.engine equal to its value before the call.                     *)
(***************************************************************************)
C30_EngineRestored ==
    [][last'.op = "generate" => compiler'.engine = compiler.engine]_vars

(***************************************************************************)
(* SpecEscape: escape_latex_special_chars called on every text of at most  *)
(* MaxEscLen characters over braces, the backslash and a letter; last      *)
(* holds the argument (on) and the value returned (ret).                   *)
(***************************************************************************)
EscChars == {"{", "}", "\\", "a"}

EscTexts == UNION {[1..n -> EscChars] : n \in 0..MaxEscLen}

Esc_call ==
    \E text \in EscTexts :
        /\ last' = Call("escape_latex_special_chars", text,
                        escape_latex_special_chars(text), 0)
        /\ output' = <<>>
        /\ UNCHANGED <<document, preamble_manager, elems, builders, openedOn,
                       pkglog, margin_args, output_dir, resources,
                       font_result, compiler, steps>>

NextEscape == Esc_call

SpecEscape == InitDocument /\ [][NextEscape]_vars

IsBrace(c) == c \in {"{", "}"}

\* the positions of s that hold a brace
BracePos(s) == {i \in 1..Len(s) : IsBrace(s[i])}

\* the positions of s that hold a backslash directly before a brace
EscapePos(s) ==
    {i \in 1..Len(s) : s[i] = "\\" /\ i < Len(s) /\ IsBrace(s[i + 1])}

\* s without the positions of D
RECURSIVE Without(_, _, _)
Without(s, D, i) ==
    IF i > Len(s) THEN <<>>
    ELSE (IF i \in D THEN <<>> ELSE <<s[i]>>) \o Without(s, D, i + 1)

(***************************************************************************)
(* C23: the escaped text is the input with a backslash put before every    *)
(* brace and nothing else changed: taking the backslash before each brace  *)
(* away gives the input back, every brace of the result has a backslash    *)
(* directly before it, and the result has as many escaped braces as the    *)
(* input has braces.                                                       *)
(***************************************************************************)
C23_BracesEscaped ==
    last.op = "escape_latex_special_chars" =>
        LET text == last.on
            escaped == last.ret
        IN  /\ Without(escaped, EscapePos(escaped), 1) = text
            /\ \A i \in BracePos(escaped) : i - 1 \in EscapePos(escaped)
            /\ Cardinality(EscapePos(escaped)) = Cardinality(BracePos(text))
            /\ Len(escaped) = Len(text) + Cardinality(BracePos(text))

\* a text with both braces, a backslash and a letter was escaped
C23_Witness ==
    /\ last.op = "escape_latex_special_chars"
    /\ {last.on[i] : i \in 1..Len(last.on)} = EscChars
    /\ last.on[1] = "\\" /\ last.on[2] = "{"

(***************************************************************************)
(* SpecProfile: elements whose text fields hold braces, constructed with   *)
(* every value of their options, added to the Document and rendered.       *)
(***************************************************************************)
Braced(c) == <<"{", c, "}">>

ProfileElements ==
    {Paragraph(Braced("p"), bold) : bold \in BOOLEAN}
    \cup {Text(Braced("t"), bold) : bold \in BOOLEAN}
    \cup {Exercise(Braced("q"), Braced("c"), <<Braced("i")>>, 1),
          Equation(Braced("e"), TRUE, NoneT),
          Divider(Braced("s"), "1em", "1em", None, None),
          Line(Braced("l"), "solid", "0.4pt", None)}

F_new ==
    \E el \in ProfileElements :
        Len(elems) < MaxProfElems /\ Unattached = {} /\ New(el)

F_add == \E e \in Unattached : add(0, e)

NextProfile == F_new \/ F_add \/ Document_to_latex

SpecProfile == InitDocument /\ [][NextProfile]_vars

\* element id emitted a token whose text is t
Emits(id, t) == \E i \in Pos({id}) : output[i].o = t

Verbatim(id, t) ==
    Emits(id, t) /\ ~Emits(id, escape_latex_special_chars(t))

Escaped(id, t) ==
    Emits(id, escape_latex_special_chars(t)) /\ ~Emits(id, t)

\* the fields whose profile no option of the element selects
FixedProfiles(id) ==
    LET el == elems[id]
    IN  /\ el.type = "Exercise" =>
              /\ Escaped(id, el.title)
              /\ Verbatim(id, el.content)
              /\ \A n \in 1..Len(el.items) : Verbatim(id, el.items[n])
        /\ el.type = "Equation" => Verbatim(id, el.equation)
        /\ el.type = "Divider" => Escaped(id, el.symbol)
        /\ el.type = "Line" => Escaped(id, el.text)

Rn_set_title == set_title(<<"T">>)

Rn_add_package ==
    \E options \in {None, "[o]"} :
        Len(pkglog) < MaxRenderElems /\ add_package("multicol", options)

Rn_add_section ==
    \E b \in BuilderIds :
        Len(elems) < MaxRenderElems /\ add_section(b, T1, 1, NoneT, FALSE)

Rn_add_paragraph ==
    \E b \in BuilderIds, bold \in BOOLEAN :
        Len(elems) < MaxRenderElems /\ add_paragraph(b, Braced("p"), bold)

Rn_add_exercise ==
    \E b \in BuilderIds, columns \in 1..2 :
        /\ Len(elems) < MaxRenderElems /\ Len(pkglog) < MaxRenderElems
        /\ add_exercise(b, T1, T1, <<T1>>, columns)

Rn_new_exercise ==
    \E columns \in 1..2 :
        /\ Len(elems) < MaxRenderElems /\ Unattached = {}
        /\ New(Exercise(T1, T1, <<T1>>, columns))

Rn_add ==
    \E e \in Unattached, c \in 0..Len(elems) :
        /\ IF c = 0 THEN TRUE ELSE c # e /\ elems[c].type = "Section"
        /\ add(c, e)

NextRender ==
    \/ Rn_set_title \/ Rn_add_package \/ Rn_add_section \/ Rn_add_paragraph
    \/ Rn_add_exercise \/ Rn_new_exercise \/ Rn_add \/ Document_to_latex

SpecRender == InitBuild /\ [][NextRender]_vars

(***************************************************************************)
(* C25: a to_latex call leaves the Document's metadata and content, every  *)
(* element (children, parent, fields) and the preamble's packages and      *)
(* custom commands as they were, and a to_latex call directly after a      *)
(* to_latex call returns the same text.                                    *)
(***************************************************************************)
C25_RenderMutatesNothing ==
    [][last'.op = "to_latex" =>
          /\ document' = document
          /\ elems' = elems
          /\ preamble_manager' = preamble_manager
          /\ last.op = "to_latex" => output' = output]_vars

\* a render of a titled Document holding a two-column Exercise that was
\* added with add, so that no call registered multicol for it
C25_Witness ==
    /\ IsRendered
    /\ Truthy(document.title)
    /\ pkglog = <<>>
    /\ \E id \in Rendered :
          elems[id].type = "Exercise" /\ elems[id].columns > 1

\* the one holder of an element that is held once: 0 is the Document
Holder(id) == CHOOSE c \in Holders(id) : TRUE

(***************************************************************************)
(* C26: after any sequence of builder calls every element is held exactly  *)
(* once; a Section is held by the Document, a DrawingSpace by the Document *)
(* or a Section, and every other element has no children and is held by    *)
(* the Document, a Section or a DrawingSpace.                              *)
(***************************************************************************)
C26_BuiltTreeShape ==
    \A id \in Ids :
        /\ Occurrences(id) = 1
        /\ Cardinality(Holders(id)) = 1
        /\ CASE elems[id].type = "Section" -> Holder(id) = 0
             [] elems[id].type = "DrawingSpace" ->
                    \/ Holder(id) = 0
                    \/ elems[Holder(id)].type = "Section"
             [] OTHER ->
                    /\ elems[id].children = <<>>
                    /\ \/ Holder(id) = 0
                       \/ elems[Holder(id)].type \in {"Section", "DrawingSpace"}

\* a Section holding a DrawingSpace holding a leaf
C26_Witness ==
    \E sec, d, p \in Ids :
        /\ elems[sec].type = "Section" /\ Holders(sec) = {0}
        /\ elems[d].type = "DrawingSpace" /\ Holders(d) = {sec}
        /\ elems[p].type \notin {"Section", "DrawingSpace"}
        /\ Holders(p) = {d}

\* the child list of the Document (0) or of an element, in a list of elements
ChildListIn(doc, es, c) == IF c = 0 THEN doc.content ELSE es[c].children

(***************************************************************************)
(* C27: a builder call that creates an element appends it to the child     *)
(* list of the Document when it is made on the DocumentBuilder, whatever   *)
(* its current_section, and to the child list of the builder's own Section *)
(* or DrawingSpace when it is made on a SectionBuilder or a                *)
(* DrawingSpaceBuilder; every other child list is left as it was.          *)
(***************************************************************************)
C27_AttachesToOwnContainer ==
    [][(Len(elems') = Len(elems) + 1 /\ last'.on \in BuilderIds) =>
          LET b == last'.on
              id == last'.elem
              to == CASE IsDoc(b) -> 0
                      [] IsSec(b) -> builders[b].section
                      [] IsDS(b) -> builders[b].drawing_space
          IN  /\ id = Len(elems')
              /\ \A c \in 0..Len(elems) :
                    ChildListIn(document', elems', c) =
                        IF c = to
                        THEN Append(ChildListIn(document, elems, c), id)
                        ELSE ChildListIn(document, elems, c)
              /\ elems'[id].children = <<>>]_vars

\* add_paragraph on the DocumentBuilder after add_section recorded a
\* current section: the Paragraph is the last child of the Document
C27_Witness ==
    /\ last.op = "add_paragraph"
    /\ IsDoc(last.on)
    /\ builders[last.on].current_section # 0
    /\ document.content[Len(document.content)] = last.elem
    /\ elems[builders[last.on].current_section].children = <<>>

(***************************************************************************)
(* SpecAutoPackage: multicol and xcolor registered by the caller with or   *)
(* without options, Sections opened, Exercises of one or two columns and   *)
(* Lines with or without a color added in any scope, the Document          *)
(* rendered at any time.                                                   *)
(***************************************************************************)
A_add_package ==
    \E package \in {"multicol", "xcolor"}, options \in {None, "[o]"} :
        Len(pkglog) < MaxAutoCalls /\ add_package(package, options)

A_add_section ==
    \E b \in BuilderIds :
        Len(elems) < MaxAutoCalls /\ add_section(b, T1, 1, NoneT, FALSE)

A_add_exercise ==
    \E b \in BuilderIds, columns \in 1..2 :
        /\ Len(elems) < MaxAutoCalls /\ Len(pkglog) < MaxAutoCalls
        /\ add_exercise(b, T1, T1, <<T1>>, columns)

A_add_line ==
    \E b \in BuilderIds, color \in {None, "red"} :
        /\ Len(elems) < MaxAutoCalls /\ Len(pkglog) < MaxAutoCalls
        /\ add_line(b, T1, "solid", "0.4pt", color)

NextAutoPackage ==
    \/ A_add_package \/ A_add_section \/ A_add_exercise \/ A_add_line
    \/ Document_to_latex

SpecAutoPackage == InitBuild /\ [][NextAutoPackage]_vars

(***************************************************************************)
(* C28: an add_exercise or add_line call leaves every package that is      *)
(* already in the package map in the map with the options it had.          *)
(***************************************************************************)
C28_AutoRegistrationAdditive ==
    [][last'.op \in {"add_exercise", "add_line"} =>
          \A i \in 1..Len(preamble_manager.packages) :
              \E j \in 1..Len(preamble_manager'.packages) :
                  preamble_manager'.packages[j] = preamble_manager.packages[i]]_vars

(***************************************************************************)
(* SpecDedup: the packages the preamble loads by itself (geometry,         *)
(* setspace, fontspec, xeCJK) and xcolor registered by the caller, margins,*)
(* line spacing and a font file set, the Document rendered at any time.    *)
(***************************************************************************)
U_add_package ==
    \E package \in {"geometry", "setspace", "fontspec", "xeCJK", "xcolor"},
       options \in {None, "[o]"} :
        Len(pkglog) < MaxDedupCalls /\ add_package(package, options)

U_set_margins ==
    \E top \in {None, "2cm"} : set_margins(top, None, "1cm", None)

U_set_line_spacing == set_line_spacing(2)

U_set_font_file == set_font_file("fonts/Noto.ttf", None)

NextDedup ==
    \/ U_add_package \/ U_set_margins \/ U_set_line_spacing
    \/ U_set_font_file \/ Document_to_latex

SpecDedup == InitBuild /\ [][NextDedup]_vars

(***************************************************************************)
(* C29: in every rendered Document each package name is loaded by at most  *)
(* one inclusion directive.                                                *)
(***************************************************************************)
C29_LoadedAtMostOnce ==
    IsRendered =>
        \A i, j \in 1..Len(output) :
            (/\ output[i].k = "usepackage" /\ output[j].k = "usepackage"
             /\ output[i].a = output[j].a) => i = j

====
